---- MODULE Spec2Model ----
\* bibval: the per-entry validation pipeline (lib.rs), the matcher (matcher.rs)
\* and the multi-source fusion (fusion.rs), as a state machine.
\*
\* Conventions.
\*   Option<T>      None is <<>>, Some(v) is <<v>>.
\*   f64 in [0,1]   an integer number of thousandths (0.85 is 850), rounded down.
\*   String         a TLA+ string; format!/join are string concatenation.
\*   HashMap        iteration order is unspecified, so an operation that takes the
\*                  maximum over a HashMap returns the SET of results it can
\*                  produce (one per maximal key).
EXTENDS Integers, Sequences, FiniteSets, Bags, TLC

VARIABLES
    entry,               \* validate_entry: the local Entry being validated
    config,              \* BibValidator: the set of enabled clients
    cache_enabled,       \* Cache.enabled
    cache,               \* Cache: the stored crossref_doi response for entry.doi
    pc,                  \* validate_entry: the await point (or tail) it is at
    validation_results,  \* validate_entry: Vec<ValidationResult>
    api_errors,          \* validate_entry: Vec<String>
    lookups,             \* history: the lookups completed so far, in order
    fused,               \* validate_entry: Option<FusedResult>
    report_results,      \* validate_entry: EntryReport.validation_results
    determined,          \* compute_status: Option of determine_status(fused)
    status,              \* validate_entry: Option<EntryStatus>
    batch,               \* validate: the entries, the in-flight futures, the reports
    matching,            \* find_best_match: target, candidates and the value returned
    adapter              \* a Validator method: the HTTP response and the value returned

vars == <<entry, config, cache_enabled, cache, pc, validation_results,
          api_errors, lookups, fused, report_results, determined, status,
          batch, matching, adapter>>

\* the value of batch, matching and adapter where validate, find_best_match
\* or a Validator method is not the operation under study
NotRunning == <<>>

-----------------------------------------------------------------------------
\* Option<T>

None == <<>>
Some(v) == <<v>>
is_some(o) == o # <<>>
is_none(o) == o = <<>>
unwrap(o) == o[1]

-----------------------------------------------------------------------------
\* Bounds of the model

MaxEnabled == 2      \* at most this many clients are enabled in a configuration
MaxCandidates == 1   \* a title search returns at most this many candidates
MaxResults == 3      \* fuse_results is applied to at most this many results
MaxDiscrepancies == 2   \* compute_status: discrepancies of the FusedResult given
MaxStatusResults == 2   \* compute_status: individual results given

-----------------------------------------------------------------------------
\* entry.rs: strings and their normalized forms

\* normalize_string: lowercase, drop what is neither alphanumeric nor
\* whitespace, collapse whitespace. Tabulated on the strings of the model.
normalize_string(s) ==
    CASE s = "Deep Learning for Image Classification" -> "deep learning for image classification"
      [] s = "Deep learning for image classification." -> "deep learning for image classification"
      [] s = "Deep Networks for Image Classification" -> "deep networks for image classification"
      [] s = "Transfer Learning for Image Classification" -> "transfer learning for image classification"
      [] s = "Quantum Computing in Finance" -> "quantum computing in finance"
      [] s = "Alice Smith" -> "alice smith"
      [] s = "A. Smith" -> "a smith"
      [] s = "Bob Jones" -> "bob jones"
      [] s = "NeurIPS" -> "neurips"
      [] s = "Advances in Neural Information Processing Systems" -> "advances in neural information processing systems"

\* strsim::jaro_winkler on normalized strings, in thousandths, tabulated on the
\* normalized strings of the model (values of the Jaro-Winkler metric with the
\* standard 4-character prefix and 0.1 scaling).
jaro_winkler(a, b) ==
    CASE a = b -> 1000
      [] {a, b} = {"deep learning for image classification", "deep networks for image classification"} -> 874
      [] {a, b} = {"deep learning for image classification", "quantum computing in finance"} -> 585
      [] {a, b} = {"deep learning for image classification", "transfer learning for image classification"} -> 784
      [] {a, b} = {"deep networks for image classification", "quantum computing in finance"} -> 585
      [] {a, b} = {"deep networks for image classification", "transfer learning for image classification"} -> 732
      [] {a, b} = {"quantum computing in finance", "transfer learning for image classification"} -> 596
      [] {a, b} = {"a smith", "alice smith"} -> 805
      [] {a, b} = {"a smith", "bob jones"} -> 417
      [] {a, b} = {"alice smith", "bob jones"} -> 424
      [] {a, b} = {"advances in neural information processing systems", "neurips"} -> 548

\* format!("{:.0}", similarity * 100.0)
percent(sim) == ToString((sim + 5) \div 10)

\* ApiSource's Display (entry.rs)
to_string(source) ==
    CASE source = "CrossRef" -> "CrossRef"
      [] source = "Dblp" -> "DBLP"
      [] source = "ArXiv" -> "ArXiv"
      [] source = "SemanticScholar" -> "Semantic Scholar"
      [] OTHER -> source

\* Vec<String>::join(sep)
RECURSIVE join(_, _)
join(strs, sep) ==
    IF strs = <<>> THEN ""
    ELSE IF Len(strs) = 1 THEN strs[1]
    ELSE strs[1] \o sep \o join(Tail(strs), sep)

\* iter().map(f).collect()
Map(s, f(_)) == [i \in 1..Len(s) |-> f(s[i])]

\* Discrepancy { field, severity, local_value, remote_value, message }
Discrepancy(f, sev, l, r, m) ==
    [field |-> f, severity |-> sev, local_value |-> l, remote_value |-> r, message |-> m]

\* any discrepancy of the given severity in a Vec<Discrepancy>
any_severity(discrepancies, sev) ==
    \E i \in 1..Len(discrepancies) : discrepancies[i].severity = sev

-----------------------------------------------------------------------------
\* matcher.rs

TITLE_MATCH_THRESHOLD == 850
TITLE_WARNING_THRESHOLD == 900
AUTHOR_MATCH_THRESHOLD == 800
VENUE_INFO_THRESHOLD == 700

title_similarity(a, b) ==
    IF is_some(a.title) /\ is_some(b.title)
    THEN jaro_winkler(normalize_string(unwrap(a.title)), normalize_string(unwrap(b.title)))
    ELSE 0

\* remote.iter().map(..).max_by(partial_cmp): the index of the best remote
\* author for a local author; max_by keeps the LAST of equal maxima.
RECURSIVE best_author(_, _, _)
best_author(local_norm, remote, n) ==
    IF n = 1 THEN 1
    ELSE LET b == best_author(local_norm, remote, n - 1)
         IN IF jaro_winkler(local_norm, normalize_string(remote[n]))
                 >= jaro_winkler(local_norm, normalize_string(remote[b]))
            THEN n ELSE b

RECURSIVE author_spelling(_, _, _)
author_spelling(local, remote, i) ==
    IF i > Len(local) THEN <<>>
    ELSE LET local_norm == normalize_string(local[i])
             b == best_author(local_norm, remote, Len(remote))
             similarity == jaro_winkler(local_norm, normalize_string(remote[b]))
             this == IF similarity < AUTHOR_MATCH_THRESHOLD
                     THEN << Discrepancy("Authors", "Warning", local[i], remote[b],
                               "Author name spelling may differ: '" \o local[i]
                               \o "' vs '" \o remote[b] \o "'") >>
                     ELSE <<>>
         IN this \o author_spelling(local, remote, i + 1)

compare_authors(local, remote) ==
    IF local = <<>> \/ remote = <<>> THEN <<>>
    ELSE (IF Len(local) # Len(remote)
          THEN << Discrepancy("Authors", "Warning",
                    ToString(Len(local)) \o " authors", ToString(Len(remote)) \o " authors",
                    "Author count differs: " \o ToString(Len(local)) \o " (local) vs "
                    \o ToString(Len(remote)) \o " (remote)") >>
          ELSE <<>>)
         \o author_spelling(local, remote, 1)

\* fault: compare_entries without its Title Warning arm
compare_entries_without_title_warning(local, remote) ==
    LET title ==
            IF is_some(local.title) /\ is_some(remote.title)
            THEN LET similarity == jaro_winkler(normalize_string(unwrap(local.title)),
                                                normalize_string(unwrap(remote.title)))
                 IN IF similarity < TITLE_MATCH_THRESHOLD
                    THEN << Discrepancy("Title", "Error", unwrap(local.title), unwrap(remote.title),
                              "Title significantly different (similarity: " \o percent(similarity) \o "%)") >>
                    ELSE <<>>
            ELSE <<>>
        year ==
            IF is_some(local.year) /\ is_some(remote.year) /\ unwrap(local.year) # unwrap(remote.year)
            THEN << Discrepancy("Year", "Error", ToString(unwrap(local.year)), ToString(unwrap(remote.year)),
                      "Year mismatch: " \o ToString(unwrap(local.year)) \o " vs "
                      \o ToString(unwrap(remote.year))) >>
            ELSE <<>>
        doi ==
            IF is_none(local.doi) /\ is_some(remote.doi)
            THEN << Discrepancy("Doi", "Warning", "(none)", unwrap(remote.doi),
                      "Missing DOI in local entry") >>
            ELSE <<>>
        venue ==
            IF is_some(local.venue) /\ is_some(remote.venue)
               /\ jaro_winkler(normalize_string(unwrap(local.venue)),
                               normalize_string(unwrap(remote.venue))) < VENUE_INFO_THRESHOLD
            THEN << Discrepancy("Venue", "Info", unwrap(local.venue), unwrap(remote.venue),
                      "Venue name differs") >>
            ELSE <<>>
    IN title \o year \o compare_authors(local.authors, remote.authors) \o doi \o venue

compare_entries(local, remote) ==
    LET title ==
            IF is_some(local.title) /\ is_some(remote.title)
            THEN LET similarity == jaro_winkler(normalize_string(unwrap(local.title)),
                                                normalize_string(unwrap(remote.title)))
                 IN IF similarity < TITLE_MATCH_THRESHOLD
                    THEN << Discrepancy("Title", "Error", unwrap(local.title), unwrap(remote.title),
                              "Title significantly different (similarity: " \o percent(similarity) \o "%)") >>
                    ELSE IF similarity < TITLE_WARNING_THRESHOLD
                    THEN << Discrepancy("Title", "Warning", unwrap(local.title), unwrap(remote.title),
                              "Title slightly different (similarity: " \o percent(similarity) \o "%)") >>
                    ELSE <<>>
            ELSE <<>>
        year ==
            IF is_some(local.year) /\ is_some(remote.year) /\ unwrap(local.year) # unwrap(remote.year)
            THEN << Discrepancy("Year", "Error", ToString(unwrap(local.year)), ToString(unwrap(remote.year)),
                      "Year mismatch: " \o ToString(unwrap(local.year)) \o " vs "
                      \o ToString(unwrap(remote.year))) >>
            ELSE <<>>
        doi ==
            IF is_none(local.doi) /\ is_some(remote.doi)
            THEN << Discrepancy("Doi", "Warning", "(none)", unwrap(remote.doi),
                      "Missing DOI in local entry") >>
            ELSE <<>>
        venue ==
            IF is_some(local.venue) /\ is_some(remote.venue)
               /\ jaro_winkler(normalize_string(unwrap(local.venue)),
                               normalize_string(unwrap(remote.venue))) < VENUE_INFO_THRESHOLD
            THEN << Discrepancy("Venue", "Info", unwrap(local.venue), unwrap(remote.venue),
                      "Venue name differs") >>
            ELSE <<>>
    IN title \o year \o compare_authors(local.authors, remote.authors) \o doi \o venue

\* candidates.iter().map(..).filter(sim >= THRESHOLD).max_by(partial_cmp):
\* the index of the chosen candidate, 0 when none qualifies; max_by keeps the
\* LAST of equal maxima.
RECURSIVE best_candidate(_, _, _)
best_candidate(target, candidates, n) ==
    IF n = 0 THEN 0
    ELSE LET b == best_candidate(target, candidates, n - 1)
             sim == title_similarity(target, candidates[n])
         IN IF sim < TITLE_MATCH_THRESHOLD THEN b
            ELSE IF b = 0 THEN n
            ELSE IF sim >= title_similarity(target, candidates[b]) THEN n ELSE b

\* fault: find_best_match without its threshold filter
find_best_match_unfiltered(target, candidates) ==
    LET all == 1..Len(candidates)
        b == CHOOSE i \in all :
               \A j \in all : \/ title_similarity(target, candidates[j])
                                    < title_similarity(target, candidates[i])
                                \/ (title_similarity(target, candidates[j])
                                    = title_similarity(target, candidates[i]) /\ j <= i)
    IN IF all = {} THEN None
       ELSE Some([entry |-> candidates[b], sim |-> title_similarity(target, candidates[b])])

\* fault: find_best_match returning the first candidate that passes the filter
find_best_match_first_passing(target, candidates) ==
    LET passing == { i \in 1..Len(candidates) :
                       title_similarity(target, candidates[i]) >= TITLE_MATCH_THRESHOLD }
        b == CHOOSE i \in passing : \A j \in passing : i <= j
    IN IF passing = {} THEN None
       ELSE Some([entry |-> candidates[b], sim |-> title_similarity(target, candidates[b])])

\* Option<(&Entry, f64)> as None or Some([entry, sim])
find_best_match(target, candidates) ==
    LET b == best_candidate(target, candidates, Len(candidates))
    IN IF b = 0 THEN None
       ELSE Some([entry |-> candidates[b], sim |-> title_similarity(target, candidates[b])])

\* matcher::years_compatible: true if either year is missing, or both equal
years_compatible(local, remote) ==
    is_none(local.year) \/ is_none(remote.year) \/ unwrap(local.year) = unwrap(remote.year)

-----------------------------------------------------------------------------
\* fusion.rs

\* ValidationResult { source, matched_entry, confidence, discrepancies }
ValidationResult(src, matched, conf, discs) ==
    [source |-> src, matched_entry |-> matched, confidence |-> conf, discrepancies |-> discs]

\* FusedResult { sources, discrepancies, has_matches }
FusedResult(srcs, discs, has) ==
    [sources |-> srcs, discrepancies |-> discs, has_matches |-> has]

\* fault: the filter of fuse_results without its confidence test
is_valid_result_any_confidence(r) == is_some(r.matched_entry)

\* the filter of fuse_results: results with a matched entry and confidence > 0
is_valid_result(r) == is_some(r.matched_entry) /\ r.confidence > 0
valid_results_of(results) == SelectSeq(results, is_valid_result)

\* year_counts: the results voting for a year (a matched entry with that year)
votes_for_year(results, y) ==
    SelectSeq(results, LAMBDA r : is_some(r.matched_entry)
                                  /\ unwrap(r.matched_entry).year = Some(y))
year_keys(results) ==
    { unwrap(unwrap(results[i].matched_entry).year) :
        i \in { j \in 1..Len(results) : is_some(results[j].matched_entry)
                                        /\ is_some(unwrap(results[j].matched_entry).year) } }

\* fault: year_verdict content with one witness
year_verdict_single_witness(local_year, consensus_year, sources) ==
    IF consensus_year # local_year /\ Len(sources) >= 1
    THEN Some(Discrepancy("Year", "Error", ToString(local_year), ToString(consensus_year),
              "Year mismatch: " \o ToString(local_year) \o " vs " \o ToString(consensus_year)
              \o " (agreed by " \o join(Map(sources, to_string), ", ") \o ")"))
    ELSE None

\* the tail of fuse_year once max_by_key has chosen consensus_year
year_verdict(local_year, consensus_year, sources) ==
    IF consensus_year # local_year /\ Len(sources) >= 2
    THEN Some(Discrepancy("Year", "Error", ToString(local_year), ToString(consensus_year),
              "Year mismatch: " \o ToString(local_year) \o " vs " \o ToString(consensus_year)
              \o " (agreed by " \o join(Map(sources, to_string), ", ") \o ")"))
    ELSE None

\* fault: fuse_year with min_by_key in place of max_by_key
fuse_year_fewest(local, results) ==
    IF is_none(local.year) \/ year_keys(results) = {} THEN {None}
    ELSE LET keys == year_keys(results)
             n(y) == Len(votes_for_year(results, y))
             minimal == { y \in keys : \A z \in keys : n(z) >= n(y) }
         IN { year_verdict(unwrap(local.year), y,
                           Map(votes_for_year(results, y), LAMBDA r : r.source)) :
              y \in minimal }

\* fuse_year: the set of Option<Discrepancy> it can return (max_by_key over a
\* HashMap picks any year with the largest number of witnesses)
fuse_year(local, results) ==
    IF is_none(local.year) \/ year_keys(results) = {} THEN {None}
    ELSE LET keys == year_keys(results)
             n(y) == Len(votes_for_year(results, y))
             maximal == { y \in keys : \A z \in keys : n(z) <= n(y) }
         IN { year_verdict(unwrap(local.year), y,
                           Map(votes_for_year(results, y), LAMBDA r : r.source)) :
              y \in maximal }

\* r.discrepancies.iter().find(Title && Error): index of the first, 0 if none
first_title_error(discrepancies) ==
    LET hits == { i \in 1..Len(discrepancies) :
                    discrepancies[i].field = "Title" /\ discrepancies[i].severity = "Error" }
    IN IF hits = {} THEN 0 ELSE CHOOSE i \in hits : \A j \in hits : i <= j

\* title_issues of fuse_title: (source, discrepancy) of each result with one
title_issues(results) ==
    Map(SelectSeq(results, LAMBDA r : first_title_error(r.discrepancies) # 0),
        LAMBDA r : [source |-> r.source,
                    discrepancy |-> r.discrepancies[first_title_error(r.discrepancies)]])

\* fault: fuse_title content with one provider's title error
fuse_title_single(local, results) ==
    LET issues == title_issues(results)
    IN IF Len(issues) >= 1
       THEN Some(Discrepancy("Title", "Error",
                 issues[1].discrepancy.local_value, issues[1].discrepancy.remote_value,
                 issues[1].discrepancy.message \o " (confirmed by "
                 \o join(Map(issues, LAMBDA t : to_string(t.source)), ", ") \o ")"))
       ELSE None

fuse_title(local, results) ==
    LET issues == title_issues(results)
    IN IF Len(issues) >= 2
       THEN Some(Discrepancy("Title", "Error",
                 issues[1].discrepancy.local_value, issues[1].discrepancy.remote_value,
                 issues[1].discrepancy.message \o " (confirmed by "
                 \o join(Map(issues, LAMBDA t : to_string(t.source)), ", ") \o ")"))
       ELSE None

\* count_mismatches of fuse_authors: remote author counts that differ from local
author_mismatches(local, results, n) ==
    SelectSeq(results, LAMBDA r : is_some(r.matched_entry)
                                  /\ unwrap(r.matched_entry).authors # <<>>
                                  /\ Len(unwrap(r.matched_entry).authors) # Len(local.authors)
                                  /\ Len(unwrap(r.matched_entry).authors) = n)
mismatch_keys(local, results) ==
    { Len(unwrap(results[i].matched_entry).authors) :
        i \in { j \in 1..Len(results) :
                  /\ is_some(results[j].matched_entry)
                  /\ unwrap(results[j].matched_entry).authors # <<>>
                  /\ Len(unwrap(results[j].matched_entry).authors) # Len(local.authors) } }

\* fault: fuse_authors trusting one witness however many results were retained
fuse_authors_single_witness(local, results) ==
    LET keys == mismatch_keys(local, results)
        n(k) == Len(author_mismatches(local, results, k))
        maximal == { k \in keys : \A z \in keys : n(z) <= n(k) }
    IN IF keys = {} THEN { <<>> }
       ELSE { IF n(k) >= 1
              THEN << Discrepancy("Authors", "Warning",
                        ToString(Len(local.authors)) \o " authors", ToString(k) \o " authors",
                        "Author count differs: " \o ToString(Len(local.authors))
                        \o " (local) vs " \o ToString(k) \o " (remote)") >>
              ELSE <<>> :
              k \in maximal }

\* fuse_authors: the set of Vec<Discrepancy> it can return (max_by_key over a
\* HashMap picks any remote count with the largest agreement)
fuse_authors(local, results) ==
    LET keys == mismatch_keys(local, results)
        n(k) == Len(author_mismatches(local, results, k))
        maximal == { k \in keys : \A z \in keys : n(z) <= n(k) }
    IN IF keys = {} THEN { <<>> }
       ELSE { IF n(k) >= 2 \/ (Len(results) = 1 /\ n(k) = 1)
              THEN << Discrepancy("Authors", "Warning",
                        ToString(Len(local.authors)) \o " authors", ToString(k) \o " authors",
                        "Author count differs: " \o ToString(Len(local.authors))
                        \o " (local) vs " \o ToString(k) \o " (remote)") >>
              ELSE <<>> :
              k \in maximal }

\* fault: check_missing_doi reporting the last remote DOI
check_missing_doi_last(local, results) ==
    LET with_doi == SelectSeq(results, LAMBDA r : is_some(r.matched_entry)
                                                  /\ is_some(unwrap(r.matched_entry).doi))
    IN IF is_some(local.doi) \/ with_doi = <<>> THEN None
       ELSE Some(Discrepancy("Doi", "Warning", "(none)",
                             unwrap(unwrap(with_doi[Len(with_doi)].matched_entry).doi),
                             "Missing DOI in local entry"))

check_missing_doi(local, results) ==
    LET with_doi == SelectSeq(results, LAMBDA r : is_some(r.matched_entry)
                                                  /\ is_some(unwrap(r.matched_entry).doi))
    IN IF is_some(local.doi) \/ with_doi = <<>> THEN None
       ELSE Some(Discrepancy("Doi", "Warning", "(none)",
                             unwrap(unwrap(with_doi[1].matched_entry).doi),
                             "Missing DOI in local entry"))

\* fault: fuse_results passing on what the first retained result reports
fuse_results_unfiltered(local, results) ==
    LET valid_results == valid_results_of(results)
    IN IF valid_results = <<>> THEN { FusedResult(<<>>, <<>>, FALSE) }
       ELSE { FusedResult(Map(valid_results, LAMBDA r : r.source),
                          valid_results[1].discrepancies, TRUE) }

\* fuse_results: the set of FusedResult it can return
fuse_results(local, results) ==
    LET valid_results == valid_results_of(results)
    IN IF valid_results = <<>> THEN { FusedResult(<<>>, <<>>, FALSE) }
       ELSE { FusedResult(Map(valid_results, LAMBDA r : r.source),
                          y \o fuse_title(local, valid_results) \o a
                            \o check_missing_doi(local, valid_results),
                          TRUE) :
              y \in fuse_year(local, valid_results),
              a \in fuse_authors(local, valid_results) }

-----------------------------------------------------------------------------
\* lib.rs: status assignment

MIN_TITLE_SIMILARITY_FOR_ID_LOOKUP == 750

\* EntryStatus: Ok(ApiSource) | Warning | Error | NotFound | Failed(String)
EntryStatus(t, a) == [tag |-> t, arg |-> a]
StatusOk(source) == EntryStatus("Ok", source)
StatusWarning == EntryStatus("Warning", "")
StatusError == EntryStatus("Error", "")
StatusNotFound == EntryStatus("NotFound", "")
StatusFailed(msg) == EntryStatus("Failed", msg)

\* fault: is_valid_id_match without the year test
is_valid_id_match_title_only(local, remote) ==
    title_similarity(local, remote) >= MIN_TITLE_SIMILARITY_FOR_ID_LOOKUP

is_valid_id_match(local, remote) ==
    title_similarity(local, remote) >= MIN_TITLE_SIMILARITY_FOR_ID_LOOKUP
    /\ years_compatible(local, remote)

\* fault: determine_status testing for warnings before errors
determine_status_warning_first(f) ==
    IF ~f.has_matches THEN StatusNotFound
    ELSE IF any_severity(f.discrepancies, "Warning") THEN StatusWarning
    ELSE IF any_severity(f.discrepancies, "Error") THEN StatusError
    ELSE StatusOk(IF f.sources # <<>> THEN f.sources[1] ELSE "CrossRef")

determine_status(f) ==
    IF ~f.has_matches THEN StatusNotFound
    ELSE IF any_severity(f.discrepancies, "Error") THEN StatusError
    ELSE IF any_severity(f.discrepancies, "Warning") THEN StatusWarning
    ELSE StatusOk(IF f.sources # <<>> THEN f.sources[1] ELSE "CrossRef")

\* fault: compute_status promoting to Failed whatever the status
compute_status_failed_on_any_error(f, results, errors) ==
    IF errors # <<>> THEN StatusFailed(join(errors, "; ")) ELSE determine_status(f)

\* fault: compute_status applying the downgrade rule to every matched status
compute_status_downgrade_any(f, results, errors) ==
    LET first == determine_status(f)
        has_errors == \E i \in 1..Len(results) : any_severity(results[i].discrepancies, "Error")
        has_warnings == \E i \in 1..Len(results) : any_severity(results[i].discrepancies, "Warning")
        downgraded == IF first.tag # "NotFound"
                      THEN IF has_errors THEN StatusError
                           ELSE IF has_warnings THEN StatusWarning
                           ELSE first
                      ELSE first
    IN IF downgraded.tag = "NotFound" /\ errors # <<>>
       THEN StatusFailed(join(errors, "; "))
       ELSE downgraded

compute_status(f, results, errors) ==
    LET first == determine_status(f)
        has_errors == \E i \in 1..Len(results) : any_severity(results[i].discrepancies, "Error")
        has_warnings == \E i \in 1..Len(results) : any_severity(results[i].discrepancies, "Warning")
        downgraded == IF first.tag = "Ok"
                      THEN IF has_errors THEN StatusError
                           ELSE IF has_warnings THEN StatusWarning
                           ELSE first
                      ELSE first
    IN IF downgraded.tag = "NotFound" /\ errors # <<>>
       THEN StatusFailed(join(errors, "; "))
       ELSE downgraded

-----------------------------------------------------------------------------
\* lib.rs: BibValidator and validate_entry

\* BibValidator's Option<..Client> fields
Clients == {"crossref", "dblp", "arxiv", "semantic",
            "openalex", "openlibrary", "openreview", "zenodo"}

\* The await points of validate_entry, in program order
SiteOrder == << "doi", "arxiv", "arxiv_semantic",
                "title_dblp", "title_semantic", "title_openalex",
                "title_openlibrary", "title_openreview", "title_zenodo" >>
FirstTitleSite == 4
site_index(site) == CHOOSE k \in 1..Len(SiteOrder) : SiteOrder[k] = site

\* per await point: the client field used, the Validator method awaited, the
\* ApiSource recorded and the prefix of the api_errors message
site_client(site) ==
    CASE site = "doi" -> "crossref"
      [] site = "arxiv" -> "arxiv"
      [] site = "arxiv_semantic" -> "semantic"
      [] site = "title_dblp" -> "dblp"
      [] site = "title_semantic" -> "semantic"
      [] site = "title_openalex" -> "openalex"
      [] site = "title_openlibrary" -> "openlibrary"
      [] site = "title_openreview" -> "openreview"
      [] site = "title_zenodo" -> "zenodo"
site_op(site) ==
    CASE site = "doi" -> "search_by_doi"
      [] site \in {"arxiv", "arxiv_semantic"} -> "search_by_arxiv_id"
      [] OTHER -> "search_by_title"
site_source(site) ==
    CASE site = "doi" -> "CrossRef"
      [] site = "arxiv" -> "ArXiv"
      [] site = "arxiv_semantic" -> "SemanticScholar"
      [] site = "title_dblp" -> "Dblp"
      [] site = "title_semantic" -> "SemanticScholar"
      [] site = "title_openalex" -> "OpenAlex"
      [] site = "title_openlibrary" -> "OpenLibrary"
      [] site = "title_openreview" -> "OpenReview"
      [] site = "title_zenodo" -> "Zenodo"
site_error_prefix(site) ==
    CASE site = "doi" -> "CrossRef DOI lookup failed: "
      [] site = "arxiv" -> "ArXiv lookup failed: "
      [] site = "arxiv_semantic" -> "Semantic Scholar arXiv lookup failed: "
      [] site = "title_dblp" -> "DBLP lookup failed: "
      [] site = "title_semantic" -> "Semantic Scholar lookup failed: "
      [] site = "title_openalex" -> "OpenAlex lookup failed: "
      [] site = "title_openlibrary" -> "Open Library lookup failed: "
      [] site = "title_openreview" -> "OpenReview lookup failed: "
      [] site = "title_zenodo" -> "Zenodo lookup failed: "

\* confidence recorded for an accepted ID lookup
id_confidence(site, discrepancies) ==
    CASE site = "doi" -> IF discrepancies = <<>> THEN 1000 ELSE 800
      [] site = "arxiv" -> 950
      [] site = "arxiv_semantic" -> 900

\* fault: the title searches entered without testing validation_results.is_empty()
site_reached_ignoring_results(site, e, cfg, results, in_title) ==
    CASE site = "doi" -> is_some(e.doi) /\ "crossref" \in cfg
      [] site = "arxiv" -> is_some(e.arxiv_id) /\ "arxiv" \in cfg
      [] site = "arxiv_semantic" -> is_some(e.arxiv_id) /\ "semantic" \in cfg
      [] OTHER -> is_some(e.title) /\ site_client(site) \in cfg

\* The conditions under which validate_entry reaches an await point:
\* the `if let Some(..)` on the entry's identifier and on the client, and for
\* the title searches the `if validation_results.is_empty()` that is tested
\* once, on entering the title-search block (in_title: already inside it).
site_reached(site, e, cfg, results, in_title) ==
    CASE site = "doi" -> is_some(e.doi) /\ "crossref" \in cfg
      [] site = "arxiv" -> is_some(e.arxiv_id) /\ "arxiv" \in cfg
      [] site = "arxiv_semantic" -> is_some(e.arxiv_id) /\ "semantic" \in cfg
      [] OTHER -> /\ in_title \/ results = <<>>
                  /\ is_some(e.title)
                  /\ site_client(site) \in cfg

\* the next await point at or after position k, "fuse" when there is none
RECURSIVE next_await(_, _, _, _, _)
next_await(k, e, cfg, results, in_title) ==
    IF k > Len(SiteOrder) THEN "fuse"
    ELSE IF site_reached(SiteOrder[k], e, cfg, results, in_title) THEN SiteOrder[k]
    ELSE next_await(k + 1, e, cfg, results, in_title)

\* where validate_entry goes after the await point `site` has been handled
after_site(site, e, cfg, results) ==
    next_await(site_index(site) + 1, e, cfg, results, site_index(site) >= FirstTitleSite)

\* Result<T, ValidatorError> of a provider call, the error by its Display
Err(m) == [kind |-> "Err", msg |-> m, value |-> None]
Ok(v) == [kind |-> "Ok", msg |-> "", value |-> v]

\* ValidatorError's Display strings (validators/mod.rs)
ErrorMessages == { "Rate limited, try again later" }

Entry(t, a, y, v, d, x) ==
    [title |-> t, authors |-> a, year |-> y, venue |-> v, doi |-> d, arxiv_id |-> x]

\* the local entries validated
LocalEntries ==
    { Entry(t, <<"Alice Smith">>, y, Some("NeurIPS"), d, x) :
        t \in {None, Some("Deep Learning for Image Classification")},
        y \in {None, Some(2020)},
        d \in {None, Some("10.1000/local")},
        x \in {None, Some("2301.12345")} }

\* the records the providers return
RemoteExact == Entry(Some("Deep learning for image classification."), <<"A. Smith">>,
                     Some(2020), Some("NeurIPS"), None, None)
RemoteClose == Entry(Some("Deep Networks for Image Classification"), <<"Alice Smith">>,
                     Some(2020), Some("Advances in Neural Information Processing Systems"),
                     Some("10.1000/remote"), None)
RemoteLoose == Entry(Some("Transfer Learning for Image Classification"), <<"Bob Jones">>,
                     Some(2020), None, Some("10.1000/remote"), None)
RemoteLooseUndated == Entry(Some("Transfer Learning for Image Classification"),
                            <<"Alice Smith", "Bob Jones">>, None, None, None, None)
RemoteOtherYear == Entry(Some("Deep Learning for Image Classification"),
                         <<"Alice Smith", "Bob Jones">>, Some(2019), None, None,
                         Some("2301.12345"))
RemoteUnrelated == Entry(Some("Quantum Computing in Finance"), <<"Bob Jones">>,
                         Some(2020), None, None, None)
RemoteEntries == {RemoteExact, RemoteClose, RemoteLoose, RemoteLooseUndated,
                  RemoteOtherYear, RemoteUnrelated}

\* Result<Option<Entry>, ValidatorError>
IdResponses ==
    { Err(m) : m \in ErrorMessages } \cup {Ok(None)} \cup { Ok(Some(r)) : r \in RemoteEntries }

\* Result<Vec<Entry>, ValidatorError>
TitleCandidates == {RemoteExact, RemoteClose, RemoteLoose, RemoteOtherYear}
CandidateLists == UNION { [1..n -> TitleCandidates] : n \in 0..MaxCandidates }
TitleResponses == { Err(m) : m \in ErrorMessages } \cup { Ok(c) : c \in CandidateLists }

\* what a completed lookup at `site` leaves in the history: whether the
\* provider was called (or the cache answered), whether a result was pushed,
\* the provider's error ("" when it returned Ok) and, for an ID lookup, the
\* record it returned (None for a title search: its candidates are not kept)
Lookup(site, called, accepted, error, record) ==
    [site |-> site, client |-> site_client(site), op |-> site_op(site),
     called |-> called, accepted |-> accepted, error |-> error, record |-> record]

\* one `match` on the result of an ID lookup (lines 165-182, 189-203, 208-222);
\* called: whether the provider was called to obtain resp
id_lookup_step(site, resp, called) ==
    LET accepted == /\ resp.kind = "Ok"
                    /\ is_some(resp.value)
                    /\ is_valid_id_match(entry, unwrap(resp.value))
        discrepancies == compare_entries(entry, unwrap(resp.value))
        results == IF accepted
                   THEN Append(validation_results,
                               ValidationResult(site_source(site), resp.value,
                                                id_confidence(site, discrepancies),
                                                discrepancies))
                   ELSE validation_results
    IN /\ validation_results' = results
       /\ api_errors' = IF resp.kind = "Err"
                        THEN Append(api_errors, site_error_prefix(site) \o resp.msg)
                        ELSE api_errors
       /\ lookups' = Append(lookups, Lookup(site, called, accepted, resp.msg, resp.value))
       /\ pc' = after_site(site, entry, config, results)
       /\ UNCHANGED <<batch, matching, adapter, entry, config, cache_enabled, fused, report_results, determined, status>>

\* fault: a title search whose Err arm returns early from the lookups
title_search_step_aborting(site, resp) ==
    LET best == IF resp.kind = "Ok" THEN find_best_match(entry, resp.value) ELSE None
        results == IF is_some(best)
                   THEN Append(validation_results,
                               ValidationResult(site_source(site), Some(unwrap(best).entry),
                                                unwrap(best).sim,
                                                compare_entries(entry, unwrap(best).entry)))
                   ELSE validation_results
    IN /\ validation_results' = results
       /\ api_errors' = IF resp.kind = "Err"
                        THEN Append(api_errors, site_error_prefix(site) \o resp.msg)
                        ELSE api_errors
       /\ lookups' = Append(lookups, Lookup(site, TRUE, is_some(best), resp.msg, None))
       /\ pc' = IF resp.kind = "Err" THEN "fuse" ELSE after_site(site, entry, config, results)
       /\ UNCHANGED <<batch, matching, adapter, entry, config, cache_enabled, cache, fused, report_results,
                       determined, status>>

\* one `match` on the result of a title search (lines 231-244 and its copies)
title_search_step(site, resp) ==
    LET best == IF resp.kind = "Ok" THEN find_best_match(entry, resp.value) ELSE None
        results == IF is_some(best)
                   THEN Append(validation_results,
                               ValidationResult(site_source(site), Some(unwrap(best).entry),
                                                unwrap(best).sim,
                                                compare_entries(entry, unwrap(best).entry)))
                   ELSE validation_results
    IN /\ validation_results' = results
       /\ api_errors' = IF resp.kind = "Err"
                        THEN Append(api_errors, site_error_prefix(site) \o resp.msg)
                        ELSE api_errors
       /\ lookups' = Append(lookups, Lookup(site, TRUE, is_some(best), resp.msg, None))
       /\ pc' = after_site(site, entry, config, results)
       /\ UNCHANGED <<batch, matching, adapter, entry, config, cache_enabled, cache, fused, report_results,
                       determined, status>>

\* try_doi_lookup answered from the cache: Cache::get finds a fresh file
crossref_doi_cached ==
    /\ pc = "doi"
    /\ cache_enabled /\ is_some(cache)
    /\ id_lookup_step("doi", Ok(cache), FALSE)
    /\ UNCHANGED cache

\* try_doi_lookup with a cache miss (disabled, no file, or an expired file,
\* which Cache::get removes): search_by_doi is awaited and a Some is stored,
\* unless the write fails (its Result is dropped)
crossref_doi_lookup ==
    /\ pc = "doi"
    /\ \E resp \in IdResponses, written \in BOOLEAN :
         /\ written => (cache_enabled /\ resp.kind = "Ok" /\ is_some(resp.value))
         /\ id_lookup_step("doi", resp, TRUE)
         /\ cache' = IF ~cache_enabled THEN cache
                     ELSE IF written THEN resp.value
                     ELSE None

arxiv_id_lookup ==
    /\ pc = "arxiv"
    /\ \E resp \in IdResponses : id_lookup_step("arxiv", resp, TRUE)
    /\ UNCHANGED cache

semantic_arxiv_lookup ==
    /\ pc = "arxiv_semantic"
    /\ \E resp \in IdResponses : id_lookup_step("arxiv_semantic", resp, TRUE)
    /\ UNCHANGED cache

dblp_title_search ==
    pc = "title_dblp" /\ \E resp \in TitleResponses : title_search_step("title_dblp", resp)

semantic_title_search ==
    pc = "title_semantic" /\ \E resp \in TitleResponses : title_search_step("title_semantic", resp)

openalex_title_search ==
    pc = "title_openalex" /\ \E resp \in TitleResponses : title_search_step("title_openalex", resp)

openlibrary_title_search ==
    pc = "title_openlibrary" /\ \E resp \in TitleResponses : title_search_step("title_openlibrary", resp)

openreview_title_search ==
    pc = "title_openreview" /\ \E resp \in TitleResponses : title_search_step("title_openreview", resp)

zenodo_title_search ==
    pc = "title_zenodo" /\ \E resp \in TitleResponses : title_search_step("title_zenodo", resp)

\* fault: the synthetic result built without the fused discrepancies
synthetic_result_without_discrepancies(f) ==
    ValidationResult(IF f.sources # <<>> THEN f.sources[1] ELSE "CrossRef", None, 1000, <<>>)

\* the synthetic result pushed when fused.has_matches (lines 343-350)
synthetic_result(f) ==
    ValidationResult(IF f.sources # <<>> THEN f.sources[1] ELSE "CrossRef",
                     None, 1000, f.discrepancies)

\* lines 339-350: fuse_results and the report's validation_results
fuse ==
    /\ pc = "fuse"
    /\ \E f \in fuse_results(entry, validation_results) :
         /\ fused' = Some(f)
         /\ report_results' = IF f.has_matches
                              THEN Append(validation_results, synthetic_result(f))
                              ELSE validation_results
    /\ pc' = "status"
    /\ UNCHANGED <<batch, matching, adapter, entry, config, cache_enabled, cache, validation_results,
                   api_errors, lookups, determined, status>>

\* lines 352-359: compute_status and the EntryReport returned
assign_status ==
    /\ pc = "status"
    /\ determined' = Some(determine_status(unwrap(fused)))
    /\ status' = Some(compute_status(unwrap(fused), validation_results, api_errors))
    /\ pc' = "done"
    /\ UNCHANGED <<batch, matching, adapter, entry, config, cache_enabled, cache, validation_results,
                   api_errors, lookups, fused, report_results>>

\* the EntryReport validate_entry returns (when pc = "done")
EntryReport ==
    [entry |-> entry, status |-> unwrap(status), validation_results |-> report_results]

\* The cache is read and written by try_doi_lookup alone: the cache setting and
\* the stored response vary where a DOI lookup can happen; elsewhere the setting
\* is ValidatorConfig's default and the file is absent.
doi_lookup_possible(e, cfg) == is_some(e.doi) /\ "crossref" \in cfg
CachedEntries == {RemoteExact, RemoteLoose}

Configs == { c \in SUBSET Clients : Cardinality(c) <= MaxEnabled }

Init ==
    /\ entry \in LocalEntries
    /\ config \in Configs
    /\ cache_enabled \in IF doi_lookup_possible(entry, config) THEN BOOLEAN ELSE {TRUE}
    /\ cache \in IF doi_lookup_possible(entry, config) /\ cache_enabled
                 THEN {None} \cup { Some(r) : r \in CachedEntries }
                 ELSE {None}
    /\ pc = next_await(1, entry, config, <<>>, FALSE)
    /\ validation_results = <<>>
    /\ api_errors = <<>>
    /\ lookups = <<>>
    /\ fused = None
    /\ report_results = <<>>
    /\ determined = None
    /\ status = None
    /\ batch = NotRunning
    /\ matching = NotRunning
    /\ adapter = NotRunning

Next ==
    \/ crossref_doi_cached
    \/ crossref_doi_lookup
    \/ arxiv_id_lookup
    \/ semantic_arxiv_lookup
    \/ dblp_title_search
    \/ semantic_title_search
    \/ openalex_title_search
    \/ openlibrary_title_search
    \/ openreview_title_search
    \/ zenodo_title_search
    \/ fuse
    \/ assign_status

Spec == Init /\ [][Next]_vars

-----------------------------------------------------------------------------
\* fuse_results applied directly (as fusion.rs's tests do), to any sequence of
\* results: with or without a matched entry, with confidence 0, with the same
\* source twice.

SeqsUpTo(S, n) == UNION { [1..k -> S] : k \in 0..n }

\* fusion.rs tests: Entry::new with the year set, make_result(source, year)
YearOnly(y) == Entry(None, <<>>, y, None, None, None)
make_result(local, source, year) ==
    ValidationResult(source, Some(YearOnly(year)), 900, compare_entries(local, YearOnly(year)))
FuseYearInputsFor(local) ==
    { <<local, results>> :
        results \in SeqsUpTo({ make_result(local, src, y) :
                                 src \in {"CrossRef", "Dblp"},
                                 y \in {None, Some(2018), Some(2019), Some(2020)} },
                             MaxResults) }
FuseYearInputs == FuseYearInputsFor(YearOnly(None)) \cup FuseYearInputsFor(YearOnly(Some(2020)))

\* results that differ in their title discrepancies
TitleOnly(t) == Entry(Some(t), <<>>, None, None, None, None)
LocalTitleOnly == TitleOnly("Deep Learning for Image Classification")
TitleDiscrepancyLists ==
    { compare_entries(LocalTitleOnly, TitleOnly(t)) :
        t \in { "Deep learning for image classification.",
                "Deep Networks for Image Classification",
                "Transfer Learning for Image Classification",
                "Quantum Computing in Finance" } }
    \cup { compare_entries(LocalTitleOnly, TitleOnly("Deep Networks for Image Classification"))
           \o compare_entries(LocalTitleOnly, TitleOnly("Quantum Computing in Finance")) }
FuseTitleInputs ==
    { <<LocalTitleOnly, results>> :
        results \in SeqsUpTo({ ValidationResult(src, Some(LocalTitleOnly), 900, d) :
                                 src \in {"CrossRef", "ArXiv"}, d \in TitleDiscrepancyLists },
                             MaxResults) }

\* results that pass or fail the filter of fuse_results
FilterLocal == Entry(Some("Deep Learning for Image Classification"), <<"Alice Smith">>,
                     Some(2020), None, None, None)
FilterRemote == Entry(Some("Transfer Learning for Image Classification"),
                      <<"Alice Smith", "Bob Jones">>, Some(2019), None,
                      Some("10.1000/remote"), None)
FuseFilterInputs ==
    { <<FilterLocal, results>> :
        results \in SeqsUpTo({ ValidationResult(src, m, c, compare_entries(FilterLocal, FilterRemote)) :
                                 src \in {"CrossRef", "Dblp"},
                                 m \in {None, Some(FilterRemote)},
                                 c \in {0, 900} },
                             MaxResults) }

\* results of different providers whose years and author counts can tie
MaxTieResults == 4      \* the number of results in such a sequence
TieSources == << "CrossRef", "Dblp", "ArXiv", "SemanticScholar", "OpenAlex", "Zenodo" >>
TieLocal == Entry(None, <<"Alice Smith">>, Some(2020), None, None, None)
TieRemotes == { Entry(None, a, Some(y), None, None, None) :
                  a \in { <<"Alice Smith", "Bob Jones">>,
                          <<"Alice Smith", "Bob Jones", "A. Smith">> },
                  y \in {2019, 2020} }
FuseTieInputs ==
    { <<TieLocal, [i \in 1..MaxTieResults |->
                     ValidationResult(TieSources[i], Some(remotes[i]), 900,
                                      compare_entries(TieLocal, remotes[i]))]>> :
        remotes \in [1..MaxTieResults -> TieRemotes] }

\* results whose matched entries differ in the number of authors
AuthorLocal == Entry(None, <<"Alice Smith">>, None, None, None, None)
AuthorRemotes == { Entry(None, a, None, None, None, None) :
                     a \in { <<>>, <<"Alice Smith">>, <<"Alice Smith", "Bob Jones">>,
                             <<"Alice Smith", "Bob Jones", "A. Smith">> } }
FuseAuthorInputs ==
    { <<AuthorLocal, [i \in 1..n |->
                        ValidationResult(TieSources[i], Some(remotes[i]), 900,
                                         compare_entries(AuthorLocal, remotes[i]))]>> :
        n \in 0..MaxResults, remotes \in [1..MaxResults -> AuthorRemotes] }

\* results whose matched entries differ in their DOI, retained or not, for a
\* local entry with or without one
DoiOnly(d) == Entry(None, <<>>, None, None, d, None)
DoiLocals == { DoiOnly(None), DoiOnly(Some("10.1234/local")) }
DoiRemotes == { DoiOnly(None), DoiOnly(Some("10.1234/example")), DoiOnly(Some("10.1000/remote")) }
FuseDoiInputs ==
    { <<local, [i \in 1..n |->
                  ValidationResult(TieSources[i], Some(remotes[i]), confidences[i],
                                   compare_entries(local, remotes[i]))]>> :
        local \in DoiLocals, n \in 0..MaxResults,
        remotes \in [1..MaxResults -> DoiRemotes],
        confidences \in [1..MaxResults -> {0, 900}] }

FuseInputs == FuseYearInputs \cup FuseTitleInputs \cup FuseFilterInputs \cup FuseTieInputs
              \cup FuseAuthorInputs \cup FuseDoiInputs

InitFuse ==
    /\ \E input \in FuseInputs : entry = input[1] /\ validation_results = input[2]
    /\ config = {}
    /\ cache_enabled = TRUE
    /\ cache = None
    /\ pc = "fuse"
    /\ api_errors = <<>>
    /\ lookups = <<>>
    /\ fused = None
    /\ report_results = <<>>
    /\ determined = None
    /\ status = None
    /\ batch = NotRunning
    /\ matching = NotRunning
    /\ adapter = NotRunning

FuseNext == fuse \/ assign_status

FuseSpec == InitFuse /\ [][FuseNext]_vars

-----------------------------------------------------------------------------
\* compute_status applied directly (as lib.rs's tests do) to any FusedResult,
\* individual results and api_errors.

\* lib.rs tests: make_validation_result(severity)
StatusDiscrepancy(sev) == Discrepancy("Title", sev, "local", "remote", "difference")
make_validation_result(discrepancies) == ValidationResult("CrossRef", None, 1000, discrepancies)

StatusFused ==
    { FusedResult(srcs, discs, has) :
        srcs \in { <<>>, <<"CrossRef">>, <<"Dblp", "CrossRef">> },
        discs \in SeqsUpTo({ StatusDiscrepancy(sev) : sev \in {"Info", "Warning", "Error"} },
                           MaxDiscrepancies),
        has \in BOOLEAN }
StatusResults ==
    SeqsUpTo({ make_validation_result(d) :
                 d \in { <<>>, <<StatusDiscrepancy("Info")>>, <<StatusDiscrepancy("Warning")>>,
                         <<StatusDiscrepancy("Error")>>,
                         <<StatusDiscrepancy("Warning"), StatusDiscrepancy("Error")>> } },
             MaxStatusResults)
StatusErrors ==
    { <<>>, <<"CrossRef rate limited">>,
      <<"CrossRef rate limited", "DBLP lookup failed: Rate limited, try again later">> }

InitStatus ==
    /\ entry = FilterLocal
    /\ config = {}
    /\ cache_enabled = TRUE
    /\ cache = None
    /\ pc = "status"
    /\ validation_results \in StatusResults
    /\ api_errors \in StatusErrors
    /\ lookups = <<>>
    /\ fused \in { Some(f) : f \in StatusFused }
    /\ report_results = <<>>
    /\ determined = None
    /\ status = None
    /\ batch = NotRunning
    /\ matching = NotRunning
    /\ adapter = NotRunning

StatusSpec == InitStatus /\ [][assign_status]_vars

-----------------------------------------------------------------------------
\* validate (lib.rs 120-155): stream::iter(entries) mapped to validate_entry
\* futures, buffer_unordered(CONCURRENCY_LIMIT), collected and added to a Report.
\* A future completes with the EntryReport of its entry, whose status is any
\* that validate_entry can give. Completions arrive in any order, so the order
\* of Report.entries carries nothing: the reports are kept as a bag.

CONCURRENCY_LIMIT == 20
MaxEntries == 21     \* the longest batch validated

BatchFirst == Entry(Some("Deep Learning for Image Classification"), <<"Alice Smith">>,
                    Some(2020), None, Some("10.1000/local"), None)
BatchOther == Entry(Some("Quantum Computing in Finance"), <<"Bob Jones">>,
                    Some(2019), None, None, None)
BatchSizes == (0..3) \cup {MaxEntries}
Batches == { [i \in 1..n |-> IF i = 1 THEN BatchFirst ELSE BatchOther] : n \in BatchSizes }

\* the statuses a completed validate_entry reports
BatchStatuses == { StatusOk("CrossRef"),
                   StatusFailed("CrossRef DOI lookup failed: Rate limited, try again later") }

batch_report(e, s) == [entry |-> e, status |-> s]

InFlight == BagCardinality(batch.in_flight)

\* fault: buffer_unordered starting a future whatever the number in flight
batch_start_unlimited ==
    /\ batch # NotRunning
    /\ batch.started < Len(batch.entries)
    /\ batch' = [batch EXCEPT !.started = @ + 1,
                              !.in_flight = @ (+) SetToBag({batch.entries[batch.started + 1]})]
    /\ UNCHANGED <<entry, config, cache_enabled, cache, pc, validation_results, api_errors,
                   lookups, fused, report_results, determined, status, matching, adapter>>

\* buffer_unordered takes the next entry of the stream and starts its future
batch_start ==
    /\ batch # NotRunning
    /\ batch.started < Len(batch.entries)
    /\ InFlight < CONCURRENCY_LIMIT
    /\ batch' = [batch EXCEPT !.started = @ + 1,
                              !.in_flight = @ (+) SetToBag({batch.entries[batch.started + 1]})]
    /\ UNCHANGED <<entry, config, cache_enabled, cache, pc, validation_results, api_errors,
                   lookups, fused, report_results, determined, status, matching, adapter>>

\* fault: a future whose entry failed yields no report
batch_complete_dropping_failed ==
    /\ batch # NotRunning
    /\ \E e \in BagToSet(batch.in_flight), s \in BatchStatuses :
         batch' = [batch EXCEPT !.in_flight = @ (-) SetToBag({e}),
                                !.progress = @ + 1,
                                !.results = IF s.tag = "Failed" THEN @
                                            ELSE @ (+) SetToBag({batch_report(e, s)})]
    /\ UNCHANGED <<entry, config, cache_enabled, cache, pc, validation_results, api_errors,
                   lookups, fused, report_results, determined, status, matching, adapter>>

\* a future in flight completes: progress.fetch_add(1), its report is collected
batch_complete ==
    /\ batch # NotRunning
    /\ \E e \in BagToSet(batch.in_flight), s \in BatchStatuses :
         batch' = [batch EXCEPT !.in_flight = @ (-) SetToBag({e}),
                                !.progress = @ + 1,
                                !.results = @ (+) SetToBag({batch_report(e, s)})]
    /\ UNCHANGED <<entry, config, cache_enabled, cache, pc, validation_results, api_errors,
                   lookups, fused, report_results, determined, status, matching, adapter>>

\* the stream is exhausted: every collected report is added to the Report
batch_finish ==
    /\ batch # NotRunning
    /\ ~batch.returned
    /\ batch.started = Len(batch.entries)
    /\ InFlight = 0
    /\ batch' = [batch EXCEPT !.report = batch.results, !.returned = TRUE]
    /\ UNCHANGED <<entry, config, cache_enabled, cache, pc, validation_results, api_errors,
                   lookups, fused, report_results, determined, status, matching, adapter>>

InitBatch ==
    /\ entry = BatchFirst
    /\ config = {}
    /\ cache_enabled = TRUE
    /\ cache = None
    /\ pc = "done"
    /\ validation_results = <<>>
    /\ api_errors = <<>>
    /\ lookups = <<>>
    /\ fused = None
    /\ report_results = <<>>
    /\ determined = None
    /\ status = None
    /\ \E entries \in Batches :
         batch = [entries |-> entries, started |-> 0, in_flight |-> EmptyBag, progress |-> 0,
                  results |-> EmptyBag, report |-> EmptyBag, returned |-> FALSE]
    /\ matching = NotRunning
    /\ adapter = NotRunning

BatchNext == batch_start \/ batch_complete \/ batch_finish

\* every provider call returns and the executor keeps polling the stream, so a
\* step that can be taken is taken
BatchSpec == InitBatch /\ [][BatchNext]_vars /\ WF_vars(BatchNext)

-----------------------------------------------------------------------------
\* find_best_match (matcher.rs 162-168) applied to a target and a list of
\* candidates.

MaxMatchCandidates == 3   \* find_best_match is given at most this many candidates

MatchTargets == { Entry(t, <<"Alice Smith">>, Some(2020), None, None, None) :
                    t \in {None, Some("Deep Learning for Image Classification")} }
MatchCandidates == {RemoteExact, RemoteClose, RemoteLoose, RemoteOtherYear, RemoteUnrelated}

InitMatch ==
    /\ entry = FilterLocal
    /\ config = {}
    /\ cache_enabled = TRUE
    /\ cache = None
    /\ pc = "done"
    /\ validation_results = <<>>
    /\ api_errors = <<>>
    /\ lookups = <<>>
    /\ fused = None
    /\ report_results = <<>>
    /\ determined = None
    /\ status = None
    /\ batch = NotRunning
    /\ \E target \in MatchTargets, candidates \in SeqsUpTo(MatchCandidates, MaxMatchCandidates) :
         matching = [target |-> target, candidates |-> candidates,
                     called |-> FALSE, best |-> None]
    /\ adapter = NotRunning

find_best_match_call ==
    /\ matching # NotRunning
    /\ ~matching.called
    /\ matching' = [matching EXCEPT
                      !.called = TRUE,
                      !.best = find_best_match(matching.target, matching.candidates)]
    /\ UNCHANGED <<entry, config, cache_enabled, cache, pc, validation_results, api_errors,
                   lookups, fused, report_results, determined, status, batch, adapter>>

MatchSpec == InitMatch /\ [][find_best_match_call]_vars

-----------------------------------------------------------------------------
\* The Validator methods of the adapters (validators/*.rs) as functions of the
\* HTTP exchange. A response is [sent, status, parsed, records]: sent is FALSE
\* when send() failed; parsed says whether the body deserialises into the
\* schema the method expects (JSON for CrossRef, DBLP, Semantic Scholar and
\* Zenodo; for arXiv whether the XML reader meets no error); records are the
\* records of a body that does, each given as the Entry it converts to.

MaxBodyRecords == 2      \* a response body holds at most this many records

RateLimited == "Rate limited, try again later"
RequestError(detail) == "HTTP request failed: " \o detail
ParseError(detail) == "Failed to parse response: " \o detail

HttpStatuses == {200, 404, 429, 500}
BodyRecords == {RemoteExact, RemoteLoose}
HttpResponses ==
    { [sent |-> FALSE, status |-> 0, parsed |-> FALSE, records |-> <<>>] }
    \cup { [sent |-> TRUE, status |-> st, parsed |-> FALSE, records |-> <<>>] :
             st \in HttpStatuses }
    \cup { [sent |-> TRUE, status |-> st, parsed |-> TRUE, records |-> r] :
             st \in HttpStatuses, r \in SeqsUpTo(BodyRecords, MaxBodyRecords) }

first_record(records) == IF records = <<>> THEN None ELSE Some(records[1])

\* Entry::new with no field filled: a JSON object with none of Paper's fields
BlankEntry == Entry(None, <<>>, None, None, None, None)

\* crossref.rs 130-153
crossref_search_by_doi(doi, r) ==
    IF ~r.sent THEN Err(RequestError("error sending request"))
    ELSE IF r.status = 404 THEN Ok(None)
    ELSE IF r.status = 429 THEN Err(RateLimited)
    ELSE IF ~r.parsed THEN Err(RequestError("error decoding response body"))
    ELSE Ok(first_record(r.records))

\* crossref.rs 155-180
crossref_search_by_title(title, r) ==
    IF ~r.sent THEN Err(RequestError("error sending request"))
    ELSE IF r.status = 429 THEN Err(RateLimited)
    ELSE IF ~r.parsed THEN Err(RequestError("error decoding response body"))
    ELSE Ok(r.records)

\* dblp.rs 123-148
dblp_search_by_title(title, r) ==
    IF ~r.sent THEN Err(RequestError("error sending request"))
    ELSE IF r.status = 429 THEN Err(RateLimited)
    ELSE IF ~r.parsed
    THEN Err(ParseError("Failed to parse DBLP response: error decoding response body"))
    ELSE Ok(r.records)

\* dblp.rs 117-121
dblp_search_by_doi(doi, r) ==
    LET results == dblp_search_by_title(doi, r)
    IN IF results.kind = "Err" THEN results
       ELSE Ok(first_record(SelectSeq(results.value, LAMBDA e : e.doi = Some(doi))))

\* arxiv.rs 67-163, by its outcome on the body
parse_arxiv_atom(r) ==
    IF ~r.parsed THEN Err(ParseError("Error parsing ArXiv XML: syntax error"))
    ELSE Ok(r.records)

\* arxiv.rs 31-36
arxiv_search_by_doi(doi) == Ok(None)

\* arxiv.rs 38-49
arxiv_search_by_title(title, r) ==
    IF ~r.sent THEN Err(RequestError("error sending request"))
    ELSE parse_arxiv_atom(r)

\* arxiv.rs 51-59
arxiv_search_by_arxiv_id(arxiv_id, r) ==
    IF ~r.sent THEN Err(RequestError("error sending request"))
    ELSE LET entries == parse_arxiv_atom(r)
         IN IF entries.kind = "Err" THEN entries ELSE Ok(first_record(entries.value))

\* semantic.rs 87-108 and 135-156: the body is one Paper
semantic_search_by_id(id, r) ==
    IF ~r.sent THEN Err(RequestError("error sending request"))
    ELSE IF r.status = 404 THEN Ok(None)
    ELSE IF r.status = 429 THEN Err(RateLimited)
    ELSE IF ~r.parsed
    THEN Err(ParseError("Failed to parse Semantic Scholar response: error decoding response body"))
    ELSE Ok(Some(IF r.records = <<>> THEN BlankEntry ELSE r.records[1]))

\* semantic.rs 110-133
semantic_search_by_title(title, r) ==
    IF ~r.sent THEN Err(RequestError("error sending request"))
    ELSE IF r.status = 429 THEN Err(RateLimited)
    ELSE IF ~r.parsed
    THEN Err(ParseError("Failed to parse Semantic Scholar response: error decoding response body"))
    ELSE Ok(r.records)

\* zenodo.rs 109-128
zenodo_search_by_doi(doi, r) ==
    IF ~r.sent THEN Err(RequestError("error sending request"))
    ELSE IF r.status = 429 THEN Err(RateLimited)
    ELSE IF r.status \notin 200..299 THEN Ok(None)
    ELSE IF ~r.parsed
    THEN Err(ParseError("Failed to parse Zenodo response: error decoding response body"))
    ELSE Ok(first_record(r.records))

\* zenodo.rs 130-159
zenodo_search_by_title(title, r) ==
    IF ~r.sent THEN Err(RequestError("error sending request"))
    ELSE IF r.status = 429 THEN Err(RateLimited)
    ELSE IF r.status \notin 200..299 THEN Ok(<<>>)
    ELSE IF ~r.parsed
    THEN Err(ParseError("Failed to parse Zenodo response: error decoding response body"))
    ELSE Ok(r.records)

\* validators/mod.rs 37-41: the trait's default search_by_arxiv_id
default_search_by_arxiv_id(arxiv_id) == Ok(None)

Adapters == {"crossref", "dblp", "arxiv", "semantic", "zenodo"}
Methods == {"search_by_doi", "search_by_title", "search_by_arxiv_id"}

\* whether the method sends an HTTP request
sends_request(provider, method) ==
    CASE method = "search_by_doi" -> provider # "arxiv"
      [] method = "search_by_title" -> TRUE
      [] method = "search_by_arxiv_id" -> provider \in {"arxiv", "semantic"}

\* dyn Validator dispatch
validator_call(provider, method, query, r) ==
    CASE provider = "crossref" /\ method = "search_by_doi" -> crossref_search_by_doi(query, r)
      [] provider = "crossref" /\ method = "search_by_title" -> crossref_search_by_title(query, r)
      [] provider = "dblp" /\ method = "search_by_doi" -> dblp_search_by_doi(query, r)
      [] provider = "dblp" /\ method = "search_by_title" -> dblp_search_by_title(query, r)
      [] provider = "arxiv" /\ method = "search_by_doi" -> arxiv_search_by_doi(query)
      [] provider = "arxiv" /\ method = "search_by_title" -> arxiv_search_by_title(query, r)
      [] provider = "arxiv" /\ method = "search_by_arxiv_id" -> arxiv_search_by_arxiv_id(query, r)
      [] provider = "semantic" /\ method = "search_by_title" -> semantic_search_by_title(query, r)
      [] provider = "semantic" -> semantic_search_by_id(query, r)
      [] provider = "zenodo" /\ method = "search_by_doi" -> zenodo_search_by_doi(query, r)
      [] provider = "zenodo" /\ method = "search_by_title" -> zenodo_search_by_title(query, r)
      [] OTHER -> default_search_by_arxiv_id(query)

method_query(method) ==
    CASE method = "search_by_doi" -> "10.1000/remote"
      [] method = "search_by_title" -> "Deep Learning for Image Classification"
      [] method = "search_by_arxiv_id" -> "2301.12345"

\* the response of the one request a method sends; none when it sends none
NoResponse == [sent |-> FALSE, status |-> 0, parsed |-> FALSE, records |-> <<>>]

InitAdapter ==
    /\ entry = FilterLocal
    /\ config = {}
    /\ cache_enabled = TRUE
    /\ cache = None
    /\ pc = "done"
    /\ validation_results = <<>>
    /\ api_errors = <<>>
    /\ lookups = <<>>
    /\ fused = None
    /\ report_results = <<>>
    /\ determined = None
    /\ status = None
    /\ batch = NotRunning
    /\ matching = NotRunning
    /\ \E provider \in Adapters, method \in Methods :
         \E r \in IF sends_request(provider, method) THEN HttpResponses ELSE {NoResponse} :
            adapter = [provider |-> provider, method |-> method,
                       requested |-> sends_request(provider, method),
                       response |-> r, returned |-> FALSE, result |-> Ok(None)]

validator_method ==
    /\ adapter # NotRunning
    /\ ~adapter.returned
    /\ adapter' = [adapter EXCEPT
                     !.returned = TRUE,
                     !.result = validator_call(adapter.provider, adapter.method,
                                               method_query(adapter.method), adapter.response)]
    /\ UNCHANGED <<entry, config, cache_enabled, cache, pc, validation_results, api_errors,
                   lookups, fused, report_results, determined, status, batch, matching>>

AdapterSpec == InitAdapter /\ [][validator_method]_vars

-----------------------------------------------------------------------------
\* compare_entries (matcher.rs 12-94) applied to a local and a remote entry,
\* each with or without a title and a year.

CompareEntries ==
    { Entry(t, <<"Alice Smith">>, y, None, None, None) :
        t \in { None, Some("Deep Learning for Image Classification"),
                Some("Deep learning for image classification."),
                Some("Deep Networks for Image Classification"),
                Some("Transfer Learning for Image Classification"),
                Some("Quantum Computing in Finance") },
        y \in {None, Some(2020)} }

InitCompare ==
    /\ entry = FilterLocal
    /\ config = {}
    /\ cache_enabled = TRUE
    /\ cache = None
    /\ pc = "done"
    /\ validation_results = <<>>
    /\ api_errors = <<>>
    /\ lookups = <<>>
    /\ fused = None
    /\ report_results = <<>>
    /\ determined = None
    /\ status = None
    /\ batch = NotRunning
    /\ \E local \in CompareEntries, remote \in CompareEntries :
         matching = [local |-> local, remote |-> remote, called |-> FALSE,
                     discrepancies |-> <<>>]
    /\ adapter = NotRunning

compare_entries_call ==
    /\ matching # NotRunning
    /\ ~matching.called
    /\ matching' = [matching EXCEPT
                      !.called = TRUE,
                      !.discrepancies = compare_entries(matching.local, matching.remote)]
    /\ UNCHANGED <<entry, config, cache_enabled, cache, pc, validation_results, api_errors,
                   lookups, fused, report_results, determined, status, batch, adapter>>

CompareSpec == InitCompare /\ [][compare_entries_call]_vars

-----------------------------------------------------------------------------
\* try_doi_lookup (lib.rs 362-380) called again and again on one BibValidator,
\* with the files of the cache directory and the clock between the calls.

MaxLookups == 3          \* the number of try_doi_lookup calls followed

CACHE_TTL_SECS == 86400 * 7

CacheDois == { "10.1000/local", "10.1234/example" }

\* DefaultHasher on the query: the DOIs of the model hash to different values
md5_hash(s) ==
    CASE s = "10.1000/local" -> 1
      [] s = "10.1234/example" -> 2

\* fault: a cache key that leaves the query out
cache_key_without_query(api, query) == <<api, 0>>

\* Cache::cache_key: the file "<api>_<hash>.json"
cache_key(api, query) == <<api, md5_hash(query)>>

CacheKeys == { cache_key("crossref_doi", doi) : doi \in CacheDois }

\* serde_json::to_string on an Entry: the values of the fields in order
to_json(e) == <<e.title, e.authors, e.year, e.venue, e.doi, e.arxiv_id>>

\* serde_json::from_str::<Entry>(..).ok()
from_json(content) ==
    IF Len(content) = 6
    THEN Some(Entry(content[1], content[2], content[3], content[4], content[5], content[6]))
    ELSE None

\* a file of the cache directory: its content and its modification time
CacheFile(content, modified) == [content |-> content, modified |-> modified]

\* Cache::get at time `now`: the value returned and the files it leaves (an
\* expired file is removed)
cache_get(files, enabled, api, query, now) ==
    LET path == cache_key(api, query)
    IN IF ~enabled THEN [value |-> None, files |-> files]
       ELSE IF is_none(files[path]) THEN [value |-> None, files |-> files]
       ELSE IF now - unwrap(files[path]).modified > CACHE_TTL_SECS
       THEN [value |-> None, files |-> [files EXCEPT ![path] = None]]
       ELSE [value |-> from_json(unwrap(files[path]).content), files |-> files]

\* Cache::set at time `now`: the files it leaves; written is whether fs::write
\* succeeded (try_doi_lookup drops the Result)
cache_set(files, enabled, api, query, value, now, written) ==
    IF ~enabled \/ ~written THEN files
    ELSE [files EXCEPT ![cache_key(api, query)] = Some(CacheFile(to_json(value), now))]

\* Result<Option<Entry>, ValidatorError> of CrossRefClient::search_by_doi
CacheResponses ==
    { Err(m) : m \in ErrorMessages } \cup {Ok(None)} \cup { Ok(Some(e)) : e \in CachedEntries }

\* the time between two calls: the TTL, or a second more
Elapsed == { CACHE_TTL_SECS, CACHE_TTL_SECS + 1 }

\* one try_doi_lookup call as the history keeps it: the DOI, the time, what
\* Cache::get returned, whether search_by_doi was called and with what
\* response, whether the entry was written, and the Result returned
DoiLookup(doi, at, cached, called, response, written, returned) ==
    [doi |-> doi, at |-> at, cached |-> cached, called |-> called,
     response |-> response, written |-> written, returned |-> returned]

InitCache ==
    /\ entry = FilterLocal
    /\ config = {"crossref"}
    /\ cache_enabled \in BOOLEAN
    /\ cache = [now |-> 0, files |-> [k \in CacheKeys |-> None]]
    /\ pc = "done"
    /\ validation_results = <<>>
    /\ api_errors = <<>>
    /\ lookups = <<>>
    /\ fused = None
    /\ report_results = <<>>
    /\ determined = None
    /\ status = None
    /\ batch = NotRunning
    /\ matching = NotRunning
    /\ adapter = NotRunning

\* try_doi_lookup(client, doi), `elapsed` after the call before it
try_doi_lookup ==
    /\ Len(lookups) < MaxLookups
    /\ \E doi \in CacheDois, elapsed \in Elapsed :
         LET now == cache.now + elapsed
             got == cache_get(cache.files, cache_enabled, "crossref_doi", doi, now)
         IN IF is_some(got.value)
            THEN /\ cache' = [now |-> now, files |-> got.files]
                 /\ lookups' = Append(lookups, DoiLookup(doi, now, got.value, FALSE, None,
                                                         FALSE, Ok(got.value)))
            ELSE \E result \in CacheResponses, written \in BOOLEAN :
                   LET stores == result.kind = "Ok" /\ is_some(result.value)
                   IN /\ written => stores /\ cache_enabled
                      /\ cache' = [now |-> now,
                                   files |-> IF stores
                                             THEN cache_set(got.files, cache_enabled, "crossref_doi",
                                                            doi, unwrap(result.value), now, written)
                                             ELSE got.files]
                      /\ lookups' = Append(lookups, DoiLookup(doi, now, None, TRUE, result,
                                                              written, result))
    /\ UNCHANGED <<batch, matching, adapter, entry, config, cache_enabled, pc, validation_results,
                   api_errors, fused, report_results, determined, status>>

CacheSpec == InitCache /\ [][try_doi_lookup]_vars

-----------------------------------------------------------------------------
\* CrossRefWork::to_entry (validators/crossref.rs 77-126) applied to a
\* deserialised work whose three date fields vary.

\* CrossRefDate { date_parts: Option<Vec<Vec<i32>>> }
CrossRefDate(parts) == [date_parts |-> parts]

\* CrossRefAuthor { given, family, name }
CrossRefAuthor(given, family, name) == [given |-> given, family |-> family, name |-> name]

\* CrossRefWork { doi, title, author, container_title, published,
\* published_print, published_online }
CrossRefWork(doi, title, author, container, p, pp, po) ==
    [doi |-> doi, title |-> title, author |-> author, container_title |-> container,
     published |-> p, published_print |-> pp, published_online |-> po]

\* the date-parts a date field can hold: none, no part, an empty part, a year,
\* a year and a month followed by a second part
DateParts ==
    { None, Some(<<>>), Some(<< <<>> >>) }
    \cup { Some(<< <<y>> >>) : y \in {2018, 2019, 2020} }
    \cup { Some(<< <<y, 5>>, <<y + 10>> >>) : y \in {2018, 2019, 2020} }
DateFields == {None} \cup { Some(CrossRefDate(parts)) : parts \in DateParts }

CrossRefWorks ==
    { CrossRefWork(Some("10.1000/remote"),
                   Some(<<"Deep Learning for Image Classification">>),
                   Some(<< CrossRefAuthor(Some("Alice"), Some("Smith"), None),
                           CrossRefAuthor(None, None, Some("Bob Jones")) >>),
                   Some(<<"NeurIPS">>), p, pp, po) :
        p \in DateFields, pp \in DateFields, po \in DateFields }

\* Option::or
or(a, b) == IF is_some(a) THEN a ELSE b

\* format!("{} {}", given, family).trim() on names without outer blanks
author_name(a) ==
    IF is_some(a.name) THEN unwrap(a.name)
    ELSE LET given == IF is_some(a.given) THEN unwrap(a.given) ELSE ""
             family == IF is_some(a.family) THEN unwrap(a.family) ELSE ""
         IN IF given = "" THEN family
            ELSE IF family = "" THEN given
            ELSE given \o " " \o family

\* Option<Vec<String>>: .as_ref().and_then(|t| t.first().cloned())
first_string(o) == IF is_some(o) /\ unwrap(o) # <<>> THEN Some(unwrap(o)[1]) ELSE None

\* lines 108-122: the year of the first date field that is present
to_entry_year(work) ==
    LET date == or(or(work.published, work.published_print), work.published_online)
    IN IF is_some(date)
          /\ is_some(unwrap(date).date_parts)
          /\ unwrap(unwrap(date).date_parts) # <<>>
          /\ unwrap(unwrap(date).date_parts)[1] # <<>>
       THEN Some(unwrap(unwrap(date).date_parts)[1][1])
       ELSE None

to_entry(work) ==
    Entry(first_string(work.title),
          IF is_some(work.author)
          THEN [i \in 1..Len(unwrap(work.author)) |-> author_name(unwrap(work.author)[i])]
          ELSE <<>>,
          to_entry_year(work),
          first_string(work.container_title),
          work.doi,
          None)

InitCrossRef ==
    /\ entry = FilterLocal
    /\ config = {"crossref"}
    /\ cache_enabled = TRUE
    /\ cache = None
    /\ pc = "done"
    /\ validation_results = <<>>
    /\ api_errors = <<>>
    /\ lookups = <<>>
    /\ fused = None
    /\ report_results = <<>>
    /\ determined = None
    /\ status = None
    /\ batch = NotRunning
    /\ matching = NotRunning
    /\ \E work \in CrossRefWorks : adapter = [work |-> work, converted |-> None]

to_entry_call ==
    /\ adapter # NotRunning
    /\ is_none(adapter.converted)
    /\ adapter' = [adapter EXCEPT !.converted = Some(to_entry(adapter.work))]
    /\ UNCHANGED <<entry, config, cache_enabled, cache, pc, validation_results, api_errors,
                   lookups, fused, report_results, determined, status, batch, matching>>

CrossRefSpec == InitCrossRef /\ [][to_entry_call]_vars

-----------------------------------------------------------------------------
\* Properties

\* the FusedResult and the statuses once computed
Fused == unwrap(fused)
Determined == unwrap(determined)
Status == unwrap(status)

\* the discrepancies of one field in a Vec<Discrepancy>
OfField(discrepancies, f) == SelectSeq(discrepancies, LAMBDA d : d.field = f)

\* strings joined left to right
RECURSIVE JoinedInOrder(_, _)
JoinedInOrder(strs, sep) ==
    IF strs = <<>> THEN ""
    ELSE IF Len(strs) = 1 THEN strs[1]
    ELSE JoinedInOrder(SubSeq(strs, 1, Len(strs) - 1), sep) \o sep \o strs[Len(strs)]

\* the error messages of the lookups that returned Err, in the order met
RecordedErrors ==
    [ i \in 1..Len(SelectSeq(lookups, LAMBDA l : l.error # "")) |->
        LET l == SelectSeq(lookups, LAMBDA k : k.error # "")[i]
        IN site_error_prefix(l.site) \o l.error ]

NoneAccepted == \A i \in 1..Len(lookups) : ~lookups[i].accepted

\* C1: the final status is Failed(msg) iff no provider result was accepted
\* (fusion's has_matches is false) and at least one provider call returned an
\* error, msg then being the error messages joined by "; " in the order met;
\* it is NotFound iff no result was accepted and no call returned an error.
C1_FailedIffNoMatchAndError ==
    pc = "done" =>
        /\ Fused.has_matches <=> ~NoneAccepted
        /\ Status.tag = "Failed" <=> (NoneAccepted /\ RecordedErrors # <<>>)
        /\ Status.tag = "Failed" => Status.arg = JoinedInOrder(RecordedErrors, "; ")
        /\ Status.tag = "NotFound" <=> (NoneAccepted /\ RecordedErrors = <<>>)

C1_Witness ==
    pc = "done" /\ Status.tag = "Failed" /\ Len(RecordedErrors) >= 2

\* the one accepted result carries an Error-severity Title discrepancy
SingleTitleError ==
    /\ pc = "done"
    /\ Len(validation_results) = 1
    /\ \E k \in 1..Len(validation_results[1].discrepancies) :
         /\ validation_results[1].discrepancies[k].field = "Title"
         /\ validation_results[1].discrepancies[k].severity = "Error"

NoFusedTitleErrorAndRetained ==
    /\ \A k \in 1..Len(Fused.discrepancies) : Fused.discrepancies[k].field # "Title"
    /\ report_results[1] = validation_results[1]

\* C2: with exactly one accepted result, carrying an Error-severity Title
\* discrepancy, fusion emits no Title Error, the result is retained in
\* validation_results and the final status is Error, whatever else that
\* result carries.
C2_SingleTitleErrorIsError ==
    SingleTitleError => NoFusedTitleErrorAndRetained /\ Status = StatusError

\* C3: determine_status gives NotFound when has_matches is false; otherwise
\* Error when a fused discrepancy is an Error; otherwise Warning when one is a
\* Warning; otherwise Ok of the first fused source.
C3_DetermineStatus ==
    is_some(determined) =>
        IF ~Fused.has_matches THEN Determined = StatusNotFound
        ELSE IF \E k \in 1..Len(Fused.discrepancies) : Fused.discrepancies[k].severity = "Error"
        THEN Determined = StatusError
        ELSE IF \E k \in 1..Len(Fused.discrepancies) : Fused.discrepancies[k].severity = "Warning"
        THEN Determined = StatusWarning
        ELSE /\ Determined.tag = "Ok"
             /\ Fused.sources # <<>> => Determined.arg = Head(Fused.sources)

C3_Witness ==
    /\ is_some(determined)
    /\ Determined = StatusOk("Dblp")
    /\ Fused.discrepancies # <<>>

SeverityRank(tag) == CASE tag = "Ok" -> 0 [] tag = "Warning" -> 1 [] tag = "Error" -> 2

AnyIndividual(sev) ==
    \E i \in 1..Len(validation_results) :
        \E k \in 1..Len(validation_results[i].discrepancies) :
            validation_results[i].discrepancies[k].severity = sev

\* C4: the downgrade rule changes the status only when the fused status is
\* Ok: to Error if an individual result carries an Error, else to Warning if
\* one carries a Warning, else not at all; a fused Error or Warning is never
\* changed, so the final severity is never below the fused one.
C4_DowngradeOnlyFromOk ==
    pc = "done" =>
        /\ Determined.tag = "Ok" =>
               Status = IF AnyIndividual("Error") THEN StatusError
                        ELSE IF AnyIndividual("Warning") THEN StatusWarning
                        ELSE Determined
        /\ Determined.tag \in {"Error", "Warning"} => Status = Determined
        /\ Determined.tag \in {"Ok", "Warning", "Error"} =>
               /\ Status.tag \in {"Ok", "Warning", "Error"}
               /\ SeverityRank(Status.tag) >= SeverityRank(Determined.tag)

C4_Witness ==
    /\ pc = "done"
    /\ Determined.tag = "Warning" /\ AnyIndividual("Error") /\ Status = StatusWarning

\* the retained results (a matched entry and confidence > 0) whose matched
\* entry has the year y
RetainedWithYear(y) ==
    { i \in 1..Len(validation_results) :
        /\ validation_results[i].matched_entry # <<>>
        /\ validation_results[i].confidence > 0
        /\ validation_results[i].matched_entry[1].year = <<y>> }
YearsReported ==
    { y \in {2018, 2019, 2020} : RetainedWithYear(y) # {} }
FusedYear == OfField(Fused.discrepancies, "Year")

\* C5: a Year discrepancy in the fused result is an Error, its remote year
\* differs from the local year, and at least two retained results have a
\* matched entry with exactly that year.
C5_YearErrorHasTwoWitnesses ==
    is_some(fused) =>
        \A k \in 1..Len(FusedYear) :
            /\ FusedYear[k].severity = "Error"
            /\ is_some(entry.year)
            /\ FusedYear[k].local_value = ToString(unwrap(entry.year))
            /\ FusedYear[k].remote_value # FusedYear[k].local_value
            /\ \E y \in YearsReported :
                 /\ FusedYear[k].remote_value = ToString(y)
                 /\ Cardinality(RetainedWithYear(y)) >= 2

C5_Witness ==
    is_some(fused) /\ FusedYear # <<>> /\ Len(validation_results) = 3

\* the sources of a set of results, in the order of validation_results
SourcesAt(indices) ==
    LET kept == SelectSeq([i \in 1..Len(validation_results) |-> i], LAMBDA i : i \in indices)
    IN [ n \in 1..Len(kept) |-> to_string(validation_results[kept[n]].source) ]

\* C6: when the local year is present and a year Y different from it is
\* reported by at least two retained results and by strictly more than any
\* other year, fusion emits exactly one Year Error, with remote_value Y and a
\* message naming the witnessing providers; when no year is reported by two
\* retained results, fusion emits no Year discrepancy.
C6_YearConsensus ==
    is_some(fused) =>
        /\ \A y \in YearsReported :
             ( /\ is_some(entry.year) /\ unwrap(entry.year) # y
               /\ Cardinality(RetainedWithYear(y)) >= 2
               /\ \A z \in YearsReported \ {y} :
                    Cardinality(RetainedWithYear(z)) < Cardinality(RetainedWithYear(y)) )
             => /\ Len(FusedYear) = 1
                /\ FusedYear[1].severity = "Error"
                /\ FusedYear[1].remote_value = ToString(y)
                /\ FusedYear[1].message =
                       "Year mismatch: " \o ToString(unwrap(entry.year)) \o " vs " \o ToString(y)
                       \o " (agreed by " \o JoinedInOrder(SourcesAt(RetainedWithYear(y)), ", ") \o ")"
        /\ (\A y \in YearsReported : Cardinality(RetainedWithYear(y)) < 2) => FusedYear = <<>>

C6_Witness ==
    /\ is_some(fused)
    /\ Len(FusedYear) = 1
    /\ Cardinality(YearsReported) = 2
    /\ FusedYear[1].message = "Year mismatch: 2020 vs 2019 (agreed by CrossRef, DBLP)"

\* the retained results that carry an Error-severity Title discrepancy
TitleErrorResults ==
    { i \in 1..Len(validation_results) :
        /\ validation_results[i].matched_entry # <<>>
        /\ validation_results[i].confidence > 0
        /\ \E k \in 1..Len(validation_results[i].discrepancies) :
             /\ validation_results[i].discrepancies[k].field = "Title"
             /\ validation_results[i].discrepancies[k].severity = "Error" }
FirstTitleError(i) ==
    LET d == validation_results[i].discrepancies
        k == CHOOSE k \in 1..Len(d) :
                 /\ d[k].field = "Title" /\ d[k].severity = "Error"
                 /\ \A j \in 1..(k - 1) : ~(d[j].field = "Title" /\ d[j].severity = "Error")
    IN d[k]
FusedTitle == OfField(Fused.discrepancies, "Title")

\* C7: fusion emits a Title discrepancy only if at least two retained results
\* each carry an Error-severity Title discrepancy; it then emits exactly one,
\* an Error with the local and remote values of the first such result and a
\* message naming every confirming provider.
C7_TitleErrorNeedsTwo ==
    is_some(fused) =>
        /\ FusedTitle # <<>> => Cardinality(TitleErrorResults) >= 2
        /\ Cardinality(TitleErrorResults) >= 2 =>
             LET first == CHOOSE i \in TitleErrorResults : \A j \in TitleErrorResults : i <= j
                 d == FirstTitleError(first)
             IN /\ Len(FusedTitle) = 1
                /\ FusedTitle[1].severity = "Error"
                /\ FusedTitle[1].local_value = d.local_value
                /\ FusedTitle[1].remote_value = d.remote_value
                /\ FusedTitle[1].message =
                       d.message \o " (confirmed by "
                       \o JoinedInOrder(SourcesAt(TitleErrorResults), ", ") \o ")"

C7_Witness ==
    /\ is_some(fused)
    /\ FusedTitle # <<>>
    /\ Cardinality(TitleErrorResults) = 2
    /\ \E i \in TitleErrorResults :
         FirstTitleError(i).remote_value # FusedTitle[1].remote_value

\* the results with a matched entry and a confidence above zero
Passing == SelectSeq(validation_results,
                     LAMBDA r : r.matched_entry # <<>> /\ r.confidence > 0)

\* C8: has_matches is true iff some input result has a matched entry and a
\* confidence above zero; the results failing that test contribute nothing to
\* sources or discrepancies; when none passes, both are empty.
C8_OnlyPassingResultsCount ==
    is_some(fused) =>
        /\ Fused.has_matches <=> Passing # <<>>
        /\ Fused.sources = [ i \in 1..Len(Passing) |-> Passing[i].source ]
        /\ Fused \in fuse_results(entry, Passing)
        /\ Passing = <<>> => Fused.sources = <<>> /\ Fused.discrepancies = <<>>

C8_Witness ==
    /\ is_some(fused)
    /\ Fused.has_matches
    /\ \E i \in 1..Len(validation_results) :
         validation_results[i].matched_entry # <<>> /\ validation_results[i].confidence = 0
    /\ \E i \in 1..Len(validation_results) : validation_results[i].matched_entry = <<>>

\* the phase a lookup belongs to
Phase(op) ==
    CASE op = "search_by_doi" -> 1 [] op = "search_by_arxiv_id" -> 2 [] op = "search_by_title" -> 3

\* C9: an entry goes through the DOI lookup, the arXiv lookups, the title
\* search, fusion and status in that order; the title search is made only if
\* the DOI and arXiv lookups accepted no result and the entry has a title.
C9_PhaseOrder ==
    /\ \A i, j \in 1..Len(lookups) : i < j => Phase(lookups[i].op) <= Phase(lookups[j].op)
    /\ \A j \in 1..Len(lookups) :
         lookups[j].op = "search_by_title" =>
             /\ is_some(entry.title)
             /\ \A i \in 1..Len(lookups) :
                  lookups[i].op # "search_by_title" => ~lookups[i].accepted
    /\ pc \notin {"status", "done"} => is_none(fused)
    /\ pc # "done" => is_none(status)
    /\ is_some(status) => is_some(fused)

C9_Witness ==
    /\ pc = "done"
    /\ is_some(entry.title)
    /\ config \cap {"dblp", "semantic", "openalex", "openlibrary", "openreview", "zenodo"} # {}
    /\ \E i \in 1..Len(lookups) : lookups[i].accepted
    /\ \A i \in 1..Len(lookups) : lookups[i].op # "search_by_title"

\* the await points an entry goes through under a configuration, given whether
\* the DOI and arXiv lookups accepted a result
ApplicableSites ==
    SelectSeq(SiteOrder, LAMBDA s :
        /\ site_client(s) \in config
        /\ site_op(s) = "search_by_doi" => is_some(entry.doi)
        /\ site_op(s) = "search_by_arxiv_id" => is_some(entry.arxiv_id)
        /\ site_op(s) = "search_by_title" =>
               /\ is_some(entry.title)
               /\ \A i \in 1..Len(lookups) :
                    lookups[i].op # "search_by_title" => ~lookups[i].accepted)

\* C10: an error of a provider is recorded and ends nothing: the remaining
\* applicable enabled providers are still called, the results accepted before
\* and after it are kept, and the entry always gets its report.
C10_ErrorsNeverAbort ==
    /\ api_errors = RecordedErrors
    /\ [ i \in 1..Len(validation_results) |-> validation_results[i].source ]
         = [ i \in 1..Len(SelectSeq(lookups, LAMBDA l : l.accepted)) |->
               site_source(SelectSeq(lookups, LAMBDA l : l.accepted)[i].site) ]
    /\ pc \in {"fuse", "status", "done"} =>
           [ i \in 1..Len(lookups) |-> lookups[i].site ] = ApplicableSites
    /\ pc = "done" =>
           /\ is_some(status)
           /\ SubSeq(report_results, 1, Len(validation_results)) = validation_results
    /\ pc # "done" => ENABLED Next

C10_Witness ==
    /\ pc = "done"
    /\ \E i, j \in 1..Len(lookups) :
         i < j /\ lookups[i].error # "" /\ lookups[j].accepted
    /\ Status.tag \in {"Ok", "Warning", "Error"}

\* the gate on a record returned by an ID lookup: title similarity of at least
\* 0.75 and years that are both present only if equal
PassesIdGate(remote) ==
    /\ title_similarity(entry, remote) >= 750
    /\ entry.year = <<>> \/ remote.year = <<>> \/ entry.year = remote.year

IdLookups == SelectSeq(lookups, LAMBDA l : l.op # "search_by_title")

\* C11: a record returned by a DOI or arXiv-ID lookup is added to the results
\* only if its title similarity is at least 0.75 and the years are compatible;
\* a record failing that is dropped, adding no result, discrepancy or provider
\* error, so that with no other match the status is NotFound (Failed only if
\* a provider call returned an error).
C11_IdGate ==
    /\ \A i \in 1..Len(IdLookups) :
         /\ IdLookups[i].accepted <=>
                (IdLookups[i].record # <<>> /\ PassesIdGate(IdLookups[i].record[1]))
         /\ IdLookups[i].record # <<>> => IdLookups[i].error = ""
    /\ LET kept == SelectSeq(IdLookups, LAMBDA l : l.accepted)
       IN /\ Len(kept) <= Len(validation_results)
          /\ \A i \in 1..Len(kept) : validation_results[i].matched_entry = kept[i].record
          /\ kept = <<>> /\ Len(IdLookups) = Len(lookups) => validation_results = <<>>
    /\ Len(api_errors) = Len(SelectSeq(lookups, LAMBDA l : l.error # ""))
    /\ pc = "done" /\ validation_results = <<>> =>
           /\ Fused.discrepancies = <<>>
           /\ Status = IF api_errors = <<>> THEN StatusNotFound
                       ELSE StatusFailed(JoinedInOrder(api_errors, "; "))

C11_Witness ==
    /\ pc = "done"
    /\ Status = StatusNotFound
    /\ \E i \in 1..Len(lookups) :
         /\ lookups[i].record # <<>>
         /\ ~lookups[i].accepted
         /\ title_similarity(entry, lookups[i].record[1]) >= 750

\* the entries of a sequence, and of a bag of reports, as bags
EntriesOf(entries) ==
    LET kinds == { entries[i] : i \in 1..Len(entries) }
    IN [ e \in kinds |-> Cardinality({ i \in 1..Len(entries) : entries[i] = e }) ]
ReportedEntries(reports) ==
    LET kinds == { r.entry : r \in BagToSet(reports) }
    IN [ e \in kinds |->
           LET of_e == { r \in BagToSet(reports) : r.entry = e }
               RECURSIVE Sum(_)
               Sum(S) == IF S = {} THEN 0
                         ELSE LET r == CHOOSE r \in S : TRUE
                              IN CopiesIn(r, reports) + Sum(S \ {r})
           IN Sum(of_e) ]

\* C12: validate returns a Report with exactly one EntryReport per input entry
\* (the same multiset of entries, each a copy of its input) however the
\* entries' provider calls end, and it returns once they have all returned.
C12_OneReportPerEntry ==
    /\ [](batch.returned =>
            /\ BagCardinality(batch.report) = Len(batch.entries)
            /\ ReportedEntries(batch.report) = EntriesOf(batch.entries))
    /\ <>(batch.returned)

C12_Witness ==
    /\ batch.returned
    /\ Len(batch.entries) > CONCURRENCY_LIMIT
    /\ \E r, q \in BagToSet(batch.report) :
         r.status.tag = "Failed" /\ q.status.tag = "Ok" /\ r.entry # q.entry

\* C13: during validate at most 20 validate_entry futures are in flight at any
\* moment, whatever the number of entries; an entry is started only when fewer
\* than 20 are in flight.
C13_AtMostTwentyInFlight ==
    /\ InFlight <= 20
    /\ InFlight = batch.started - batch.progress

C13_Witness ==
    InFlight = 20 /\ batch.started < Len(batch.entries)

\* C14: the validation_results of an EntryReport are the accepted individual
\* results followed, iff fusion found matches, by exactly one synthetic result,
\* placed last, with no matched entry and exactly the fused discrepancies.
C14_SyntheticResultLast ==
    is_some(fused) =>
        LET n == Len(validation_results)
        IN /\ n = Len(SelectSeq(lookups, LAMBDA l : l.accepted))
           /\ \A i \in 1..n : validation_results[i].matched_entry # <<>>
           /\ SubSeq(report_results, 1, n) = validation_results
           /\ Fused.has_matches =>
                  /\ Len(report_results) = n + 1
                  /\ report_results[n + 1].matched_entry = <<>>
                  /\ report_results[n + 1].discrepancies = Fused.discrepancies
           /\ ~Fused.has_matches => report_results = validation_results
           /\ pc = "done" => EntryReport.validation_results = report_results

C14_Witness ==
    /\ pc = "done"
    /\ Fused.has_matches
    /\ Len(validation_results) = 2
    /\ Fused.discrepancies # <<>>
    /\ Len(report_results) = 3

\* the similarity of the target to the i-th candidate, and the largest of them
CandidateSim(i) == title_similarity(matching.target, matching.candidates[i])
Qualifying == { i \in 1..Len(matching.candidates) : CandidateSim(i) >= 850 }

\* C15: find_best_match returns None when no candidate has a title similarity
\* of at least 0.85, and otherwise a candidate whose similarity is at least
\* 0.85 and the largest of all candidates, together with that similarity.
C15_BestMatchAboveThreshold ==
    matching.called =>
        /\ Qualifying = {} => matching.best = None
        /\ Qualifying # {} =>
             /\ matching.best # None
             /\ matching.best[1].sim >= 850
             /\ \A i \in 1..Len(matching.candidates) : CandidateSim(i) <= matching.best[1].sim
             /\ \E i \in Qualifying :
                  /\ matching.candidates[i] = matching.best[1].entry
                  /\ CandidateSim(i) = matching.best[1].sim

C15_Witness ==
    /\ matching.called
    /\ matching.best # None
    /\ matching.best[1].sim = 1000
    /\ Cardinality(Qualifying) = 2
    /\ Len(matching.candidates) = 3
    /\ CandidateSim(1) = 874

\* C19: when several candidates share the highest title similarity,
\* find_best_match returns the first of them in candidate order.
C19_FirstOfTies ==
    matching.called /\ matching.best # None =>
        LET top == { i \in Qualifying : \A j \in Qualifying : CandidateSim(j) <= CandidateSim(i) }
            first == CHOOSE i \in top : \A j \in top : i <= j
        IN matching.best[1].entry = matching.candidates[first]

\* C16: every adapter method that receives an HTTP 429 response returns the
\* RateLimited error.
C16_RateLimitedOn429 ==
    adapter.returned /\ adapter.requested /\ adapter.response.sent
    /\ adapter.response.status = 429
        => adapter.result = Err("Rate limited, try again later")

\* C17: every adapter method that receives an HTTP 404 response returns a
\* successful empty result (Ok(None) for an ID lookup, an empty sequence for a
\* title search) and never an error.
C17_EmptyOn404 ==
    adapter.returned /\ adapter.requested /\ adapter.response.sent
    /\ adapter.response.status = 404
        => adapter.result = IF adapter.method = "search_by_title" THEN Ok(<<>>) ELSE Ok(None)

\* C18: fuse_results is a deterministic function of its inputs: the same local
\* entry and the same sequence of results give the same discrepancies on every
\* run, also when two remote years or two remote author counts tie for the
\* most witnesses.
C18_FusionDeterministic ==
    is_some(fused) =>
        \A f, g \in fuse_results(entry, validation_results) : f.discrepancies = g.discrepancies

\* the sources of the retained results without repetition, in order of first
\* appearance
DistinctSources ==
    LET all == [ i \in 1..Len(Passing) |-> Passing[i].source ]
        firsts == SelectSeq([i \in 1..Len(all) |-> i],
                            LAMBDA i : \A j \in 1..(i - 1) : all[j] # all[i])
    IN [ n \in 1..Len(firsts) |-> all[firsts[n]] ]

\* C20: the sources of a FusedResult hold each provider at most once, in the
\* order of first appearance among the retained results, for every sequence of
\* results, also one where a provider appears in two retained results.
C20_SourcesDistinct ==
    is_some(fused) => Fused.sources = DistinctSources

\* the individual results that carry a matched entry
Matched == SelectSeq(validation_results, LAMBDA r : is_some(r.matched_entry))

\* C21: a result whose matched_entry is absent contributes nothing to the
\* entry's status, also when its discrepancy list is non-empty: the status is
\* the one computed from the results that carry a matched entry alone.
C21_AbsentMatchContributesNothing ==
    pc = "done" => Status = compute_status(Fused, Matched, api_errors)

\* the retained results whose matched entry has n authors
WithAuthorCount(n) ==
    { i \in 1..Len(Passing) : Len(unwrap(Passing[i].matched_entry).authors) = n }

\* the remote author counts, non-zero and different from the local one, that
\* the retained results report
MismatchedCounts ==
    { n \in { Len(unwrap(Passing[i].matched_entry).authors) : i \in 1..Len(Passing) } :
        n # 0 /\ n # Len(entry.authors) }

\* those of them that no other count outnumbers
MostFrequentCounts ==
    { n \in MismatchedCounts :
        \A m \in MismatchedCounts :
            Cardinality(WithAuthorCount(m)) <= Cardinality(WithAuthorCount(n)) }

FusedAuthors == OfField(Fused.discrepancies, "Authors")

\* C22: fusion emits an Author-count Warning exactly when, among the retained
\* results whose matched entry has a non-empty author list of a length other
\* than the local one, the most frequent remote length has at least two
\* witnesses, or exactly one while a single result was retained; it emits at
\* most one, and its remote count is a most frequent length.
C22_AuthorCountWarning ==
    is_some(fused) =>
        /\ Len(FusedAuthors) <= 1
        /\ FusedAuthors # <<>> <=>
             \E n \in MostFrequentCounts :
                 \/ Cardinality(WithAuthorCount(n)) >= 2
                 \/ Cardinality(WithAuthorCount(n)) = 1 /\ Len(Passing) = 1
        /\ FusedAuthors # <<>> =>
             /\ FusedAuthors[1].severity = "Warning"
             /\ FusedAuthors[1].local_value = ToString(Len(entry.authors)) \o " authors"
             /\ \E n \in MostFrequentCounts :
                  /\ FusedAuthors[1].remote_value = ToString(n) \o " authors"
                  /\ FusedAuthors[1].message =
                       "Author count differs: " \o ToString(Len(entry.authors))
                       \o " (local) vs " \o ToString(n) \o " (remote)"

\* a Warning for a count with two witnesses, a second mismatched count and a
\* result with the local count among the retained results
C22_Witness ==
    /\ is_some(fused)
    /\ FusedAuthors # <<>>
    /\ Cardinality(MismatchedCounts) = 2
    /\ Cardinality(MostFrequentCounts) = 1
    /\ Len(Passing) >= 3

\* the retained results whose matched entry has a DOI, in retention order
WithDoi == SelectSeq(Passing, LAMBDA r : is_some(unwrap(r.matched_entry).doi))

FusedDoi == OfField(Fused.discrepancies, "Doi")

\* C23: fusion emits a missing-DOI Warning iff the local entry has no DOI and
\* some retained result's matched entry has one; it emits exactly one, with
\* local_value "(none)" and as remote_value the DOI of the first such result
\* in retention order.
C23_MissingDoi ==
    is_some(fused) =>
        /\ FusedDoi # <<>> <=> (is_none(entry.doi) /\ WithDoi # <<>>)
        /\ FusedDoi # <<>> =>
             /\ Len(FusedDoi) = 1
             /\ FusedDoi[1].severity = "Warning"
             /\ FusedDoi[1].local_value = "(none)"
             /\ FusedDoi[1].remote_value = unwrap(unwrap(WithDoi[1].matched_entry).doi)

\* a Warning naming the first of two different remote DOIs, with a result that
\* has a DOI but was not retained ahead of it
C23_Witness ==
    /\ is_some(fused)
    /\ FusedDoi # <<>>
    /\ Len(WithDoi) >= 2
    /\ unwrap(WithDoi[2].matched_entry).doi # unwrap(WithDoi[1].matched_entry).doi
    /\ validation_results[1].confidence = 0
    /\ is_some(unwrap(validation_results[1].matched_entry).doi)
    /\ unwrap(validation_results[1].matched_entry).doi # unwrap(WithDoi[1].matched_entry).doi

\* the discrepancies of every individual result, one after the other
RECURSIVE Flatten(_)
Flatten(seqs) == IF seqs = <<>> THEN <<>> ELSE Head(seqs) \o Flatten(Tail(seqs))
IndividualDiscrepancies ==
    Flatten([ i \in 1..Len(validation_results) |-> validation_results[i].discrepancies ])

\* compare_authors' two kinds of Authors discrepancy differ in local_value:
\* "<n> authors" for a count, the local author's name for a spelling
IsAuthorCount(d) ==
    d.field = "Authors" /\ d.local_value = ToString(Len(entry.authors)) \o " authors"

\* C24: a fused discrepancy list has at most one discrepancy for each of Year,
\* Title, Authors and Doi, none for Venue and none of severity Info; Venue,
\* author-spelling and Title-Warning items stay in the individual results,
\* which the report retains unchanged ahead of the synthetic result.
C24_FusedCategories ==
    is_some(fused) =>
        /\ \A f \in {"Year", "Title", "Authors", "Doi"} : Len(OfField(Fused.discrepancies, f)) <= 1
        /\ \A k \in 1..Len(Fused.discrepancies) :
             LET d == Fused.discrepancies[k]
             IN /\ d.field \in {"Year", "Title", "Authors", "Doi"}
                /\ d.severity # "Info"
                /\ d.field = "Authors" => IsAuthorCount(d)
                /\ d.field = "Title" => d.severity = "Error"
        /\ SubSeq(report_results, 1, Len(validation_results)) = validation_results

\* a report whose fused list is not empty and whose individual results hold a
\* Venue item, an author-spelling item and a Title Warning
C24_Witness ==
    /\ pc = "done"
    /\ Fused.discrepancies # <<>>
    /\ \E k \in 1..Len(IndividualDiscrepancies) : IndividualDiscrepancies[k].field = "Venue"
    /\ \E k \in 1..Len(IndividualDiscrepancies) :
         /\ IndividualDiscrepancies[k].field = "Authors"
         /\ ~IsAuthorCount(IndividualDiscrepancies[k])
    /\ \E k \in 1..Len(IndividualDiscrepancies) :
         /\ IndividualDiscrepancies[k].field = "Title"
         /\ IndividualDiscrepancies[k].severity = "Warning"

\* the Title discrepancies compare_entries returned, and the similarity of the
\* two titles
ComparedTitle == OfField(matching.discrepancies, "Title")
BothTitles == is_some(matching.local.title) /\ is_some(matching.remote.title)
ComparedSimilarity == title_similarity(matching.local, matching.remote)

\* C25: compare_entries emits at most one Title discrepancy and only when
\* both titles are present: an Error when the similarity s is below 0.85, a
\* Warning when 0.85 <= s < 0.90, none when s >= 0.90; compare_entries(e, e)
\* has no Title discrepancy.
C25_TitleThresholds ==
    (matching # NotRunning /\ matching.called) =>
        /\ Len(ComparedTitle) <= 1
        /\ ~BothTitles => ComparedTitle = <<>>
        /\ BothTitles =>
             /\ ComparedSimilarity < 850 =>
                  Len(ComparedTitle) = 1 /\ ComparedTitle[1].severity = "Error"
             /\ (ComparedSimilarity >= 850 /\ ComparedSimilarity < 900) =>
                  Len(ComparedTitle) = 1 /\ ComparedTitle[1].severity = "Warning"
             /\ ComparedSimilarity >= 900 => ComparedTitle = <<>>
        /\ matching.local = matching.remote => ComparedTitle = <<>>

\* two titles of similarity between 0.85 and 0.90 compared
C25_Witness ==
    /\ matching # NotRunning
    /\ matching.called
    /\ BothTitles
    /\ ComparedSimilarity >= 850 /\ ComparedSimilarity < 900
    /\ ComparedTitle # <<>>

\* lookup i called the provider for the DOI of lookup j and was given an entry
ProviderGave(i, j) ==
    /\ lookups[i].doi = lookups[j].doi
    /\ lookups[i].called
    /\ lookups[i].response.kind = "Ok"
    /\ is_some(lookups[i].response.value)

\* lookup j was answered, without a call, with the entry lookup i was given
AnsweredFrom(i, j) ==
    /\ ~lookups[j].called
    /\ lookups[j].returned = Ok(lookups[i].response.value)

\* the provider is called exactly on a miss, and always with the cache disabled
CalledOnMiss ==
    \A j \in 1..Len(lookups) :
        /\ lookups[j].called <=> is_none(lookups[j].cached)
        /\ ~cache_enabled => lookups[j].called

YieldedYear(date) ==
    IF is_some(date)
       /\ is_some(unwrap(date).date_parts)
       /\ Len(unwrap(unwrap(date).date_parts)) >= 1
       /\ Len(unwrap(unwrap(date).date_parts)[1]) >= 1
    THEN Some(unwrap(unwrap(date).date_parts)[1][1])
    ELSE None

\* C27: the Crossref adapter takes the year from published.date-parts[0][0]
\* and, whenever that yields none (the field missing, or present without
\* usable date-parts), from published-print and then published-online; the
\* year is absent only if none of the three yields one.
C27_YearFallback ==
    (adapter # NotRunning /\ is_some(adapter.converted)) =>
        unwrap(adapter.converted).year =
            or(or(YieldedYear(adapter.work.published),
                  YieldedYear(adapter.work.published_print)),
               YieldedYear(adapter.work.published_online))

\* some DOI-path or arXiv-path lookup had its record accepted
IdPathAccepted == \E i \in 1..Len(IdLookups) : IdLookups[i].accepted

\* C28: in an EntryReport for which a DOI-path or arXiv-path result was
\* accepted, no individual result and no fused result holds a Year
\* discrepancy: the ID gate admits only records whose year is missing or
\* equal to the local one, and no title search runs after such a result.
C28_NoYearDiscrepancyOnIdPath ==
    (pc = "done" /\ IdPathAccepted) =>
        /\ \A i \in 1..Len(report_results) : OfField(report_results[i].discrepancies, "Year") = <<>>
        /\ OfField(Fused.discrepancies, "Year") = <<>>
        /\ \A i \in 1..Len(lookups) : lookups[i].op # "search_by_title"
        /\ \A i \in 1..Len(validation_results) :
             LET remote == unwrap(validation_results[i].matched_entry)
             IN is_none(entry.year) \/ is_none(remote.year) \/ remote.year = entry.year

\* a dated entry with two ID-path results accepted, one of them without a year
C28_Witness ==
    /\ pc = "done"
    /\ is_some(entry.year)
    /\ Len(SelectSeq(IdLookups, LAMBDA l : l.accepted)) >= 2
    /\ \E i \in 1..Len(validation_results) :
         is_none(unwrap(validation_results[i].matched_entry).year)
    /\ \E i \in 1..Len(validation_results) :
         unwrap(validation_results[i].matched_entry).year = entry.year

\* a Title discrepancy of severity Error in a Vec<Discrepancy>
HasTitleError(discrepancies) ==
    \E k \in 1..Len(discrepancies) :
        discrepancies[k].field = "Title" /\ discrepancies[k].severity = "Error"

HasYearError(discrepancies) ==
    \E k \in 1..Len(discrepancies) :
        discrepancies[k].field = "Year" /\ discrepancies[k].severity = "Error"

\* C29: in an EntryReport whose results come from the title search (no
\* ID-path result was accepted), no individual result carries a Title Error
\* and the fused result has none, a candidate being accepted only with a
\* similarity of at least 0.85; and no EntryReport has both a fused Year Error
\* and a fused Title Error.
C29_NoTitleErrorOnTitlePath ==
    pc = "done" =>
        /\ ~IdPathAccepted =>
             /\ \A i \in 1..Len(report_results) : ~HasTitleError(report_results[i].discrepancies)
             /\ ~HasTitleError(Fused.discrepancies)
             /\ \A i \in 1..Len(validation_results) :
                  title_similarity(entry, unwrap(validation_results[i].matched_entry)) >= 850
        /\ ~(HasYearError(Fused.discrepancies) /\ HasTitleError(Fused.discrepancies))

\* two title-search results, after an ID-path record was turned down, that
\* give a fused Year Error
C29_Witness ==
    /\ pc = "done"
    /\ ~IdPathAccepted
    /\ IdLookups # <<>>
    /\ Len(validation_results) >= 2
    /\ HasYearError(Fused.discrepancies)

\* the individual results of the report: those ahead of the synthetic one
IndividualResults == SubSeq(report_results, 1, Len(validation_results))

\* C30: among the individual (non-synthetic) results of an EntryReport each
\* provider source appears at most once, whatever providers are enabled and
\* whichever of their calls succeed, so that fusion's witness counts are
\* counts of distinct providers.
C30_OneResultPerSource ==
    /\ \A i, j \in 1..Len(validation_results) :
         validation_results[i].source = validation_results[j].source => i = j
    /\ pc = "done" =>
         /\ IndividualResults = validation_results
         /\ Fused.sources = [ i \in 1..Len(validation_results) |-> validation_results[i].source ]
         /\ Cardinality({ Fused.sources[i] : i \in 1..Len(Fused.sources) }) = Len(Fused.sources)

\* Semantic Scholar asked twice, by arXiv id without an accepted record and by
\* title with one, next to another provider's result
C30_Witness ==
    /\ pc = "done"
    /\ Len(validation_results) >= 2
    /\ \E i, j \in 1..Len(lookups) :
         /\ lookups[i].site = "arxiv_semantic" /\ ~lookups[i].accepted
         /\ lookups[j].site = "title_semantic" /\ lookups[j].accepted

====
